---- MODULE Spec2Model ----
(***************************************************************************)
(* Overlap graph: axis-aligned Regions, the RegionSet that holds them, the *)
(* per-dimension event timeline, the one-pass sweep publishing pairwise    *)
(* overlaps, the Region intersection graph (NxGraph) and the enumeration   *)
(* queries over it.                                                        *)
(*                                                                         *)
(* Dimensions are numbered 0 .. Dim-1 as in the source.  A Region is a     *)
(* record [id, intervals]; ids are the positions at which the Regions were *)
(* added to the RegionSet, so they are pairwise distinct.  The operations  *)
(* of RegionSet itself (add, lookup, copy, filter, subset, merge, load and *)
(* serialization) are modelled on a second RegionSet, rset, whose Regions  *)
(* have string ids.                                                        *)
(***************************************************************************)
EXTENDS Integers, Sequences, FiniteSets, TLC

\* Bounds of the model.
MaxN == 3
MaxCoord == 2
Dim == 2
MaxPassN == 4
MaxRuns == 2

\* Python's None and a present value: an optional value is a sequence of
\* length at most one.
None == <<>>
Some(x) == <<x>>

Dims == 0 .. (Dim - 1)
Coords == 0 .. MaxCoord

Max(a, b) == IF a >= b THEN a ELSE b
Min(a, b) == IF a <= b THEN a ELSE b

Range(s) == {s[i] : i \in 1 .. Len(s)}

(***************************************************************************)
(* Interval and Region algebra.                                            *)
(***************************************************************************)

\* Interval: closed [lower, upper] with lower <= upper.
Intervals == {iv \in [lower : Coords, upper : Coords] : iv.lower <= iv.upper}

\* Interval.overlaps: touching counts as an overlap.
IntervalOverlaps(a, b) == a.lower <= b.upper /\ b.lower <= a.upper

\* Interval.intersect: [max of lowers, min of uppers], or None when empty.
IntervalIntersect(a, b) ==
  IF IntervalOverlaps(a, b)
  THEN Some([lower |-> Max(a.lower, b.lower), upper |-> Min(a.upper, b.upper)])
  ELSE None

\* The interval tuples of a Dim-dimensional Region.
IntervalTuples == [Dims -> Intervals]

\* Region.overlaps: conjunction, over all dimensions, of Interval.overlaps.
RegionOverlaps(a, b) == \A k \in Dims : IntervalOverlaps(a[k], b[k])

\* Region.intersect, on the interval tuples: per-dimension intersects, or None
\* when some dimension's intersect is empty.
RegionIntersect(a, b) ==
  IF \A k \in Dims : IntervalIntersect(a[k], b[k]) # None
  THEN Some([k \in Dims |-> IntervalIntersect(a[k], b[k])[1]])
  ELSE None

\* The n-ary fold of Region.intersect: None as soon as it is empty.
RECURSIVE IntersectFold(_, _)
IntersectFold(acc, list) ==
  IF acc = None \/ list = <<>> THEN acc
  ELSE IntersectFold(RegionIntersect(acc[1], Head(list)), Tail(list))

\* Region.from_intersect over a non-empty list of interval tuples.
FromIntersect(list) == IntersectFold(Some(Head(list)), Tail(list))

(***************************************************************************)
(* Timeline: two events per Region per dimension, sorted.                  *)
(***************************************************************************)

\* Kind ordering at identical `when`: End before Begin.
KindOrder(kind) == IF kind = "End" THEN 0 ELSE 1

\* MdTEvent total order: when ascending, then kind order, then insertion.
EventLess(a, b) ==
  \/ a.when < b.when
  \/ a.when = b.when /\ KindOrder(a.kind) < KindOrder(b.kind)
  \/ a.when = b.when /\ a.kind = b.kind /\ a.order < b.order

\* The (unsorted) events of the Regions regs on dimension k, in insertion
\* order: for each Region its Begin at lower[k], then its End at upper[k].
RegionEvents(regs, k) ==
  [j \in 1 .. 2 * Len(regs) |->
     LET r == regs[(j + 1) \div 2] IN
     IF j % 2 = 1
     THEN [when |-> r.intervals[k].lower, kind |-> "Begin",
           context |-> r.id, dimension |-> k, order |-> j]
     ELSE [when |-> r.intervals[k].upper, kind |-> "End",
           context |-> r.id, dimension |-> k, order |-> j]]

\* RegionTimeline.events(k): the sorted events on dimension k.
Events(regs, k) == SortSeq(RegionEvents(regs, k), EventLess)

\* Mutant of OneDimenEvents: the adapter forgets its dimension and asks the
\* timeline for its default one.
OneDimenEventsUnbound(regs, k) == Events(regs, 0)

\* MdTimelineOneDimen.events: the adapter bound to one dimension.
OneDimenEvents(regs, k) == Events(regs, k)

(***************************************************************************)
(* State.                                                                  *)
(***************************************************************************)
VARIABLES
  regions,    \* RegionSet.regions: the ordered list of member Regions
  pc,         \* "build" | "sweep" | "put" | "compute" | "pass" | "done" | "failed"
  task,       \* which task runner is subscribed to the sweep
  dimension,  \* the dimension the sweep runs on
  timeline,   \* the sorted events the sweep iterates
  pos,        \* position of the next event in timeline
  actives,    \* RegionSweep's active set, in insertion order
  published,  \* every event broadcast so far, in publish order
  log,        \* the handler calls and returns of RegionSweepOverlaps' run
  overlaps,   \* RegionSweepOverlaps.overlaps: None, or the list of pairs
  G,          \* NxGraph.G: nodes in insertion order, node and edge attributes
  finalized,  \* the pairs finalize_overlap has been called on
  cliques,    \* the cliques nx.enumerate_all_cliques has yet to yield
  results,    \* what EnumerateByNxGraph.results has yielded so far
  cycle,      \* RegionCycleSweep: the pass number and its input set S_i
  intersects, \* EnumerateByRCSweep.intersects
  query,      \* the Region id of the single-region query, 0 when none
  srq,        \* what SRQEnumByNxGraph.results has yielded so far
  srqrc,      \* what SRQEnumByRCSweep.results holds
  status,     \* how each finished computation ended: "none", "ok", "failed"
  rset,       \* the RegionSet the dataset operations act on, None before any
  call,       \* the last dataset operation called, and its arguments
  ret         \* what that call returned, or that it raised

\* The state of the enumeration queries.
qvars == <<cliques, results, cycle, intersects, query, srq, srqrc, status>>

\* The state of the dataset operations.
svars == <<rset, call, ret>>

vars == <<regions, pc, task, dimension, timeline, pos, actives, published, log,
          overlaps, G, finalized, cliques, results, cycle, intersects, query,
          srq, srqrc, status, rset, call, ret>>

\* The member Region with the given id (ids are positions).
RegionOf(id) == regions[id].intervals

RegionIds == 1 .. Len(regions)

(***************************************************************************)
(* RegionSet.add.                                                          *)
(***************************************************************************)

\* RegionSet.add(region): append, given the dimension matches (there are no
\* bounds on this set).
Add(ivs) ==
  /\ UNCHANGED svars
  /\ pc = "build"
  /\ Len(regions) < MaxN
  /\ DOMAIN ivs = Dims
  /\ regions' = Append(regions, [id |-> Len(regions) + 1, intervals |-> ivs])
  /\ UNCHANGED qvars
  /\ UNCHANGED <<pc, task, dimension, timeline, pos, actives, published, log,
                 overlaps, G, finalized>>

\* RegionSet.add(region) on the input set of the cyclic sweep, which holds
\* up to MaxPassN Regions.
AddInput(ivs) ==
  /\ UNCHANGED svars
  /\ pc = "build"
  /\ Len(regions) < MaxPassN
  /\ DOMAIN ivs = Dims
  /\ regions' = Append(regions, [id |-> Len(regions) + 1, intervals |-> ivs])
  /\ UNCHANGED qvars
  /\ UNCHANGED <<pc, task, dimension, timeline, pos, actives, published, log,
                 overlaps, G, finalized>>

(***************************************************************************)
(* NxGraph: the Region intersection graph.                                 *)
(*                                                                         *)
(* G.nodes is the node ids in insertion order, G.region the node attribute *)
(* `region`, G.edges maps each unordered pair {a, b} that has an edge to   *)
(* its attributes, `overlaps` and `intersect`, each optional.              *)
(***************************************************************************)

\* NxGraph.__init__(dimension): an empty graph.
EmptyGraph == [nodes |-> <<>>, region |-> <<>>, edges |-> <<>>]

\* A call's outcome: the graph after it, and whether it raised.
Ok(g) == [ok |-> TRUE, G |-> g]
Raised(g) == [ok |-> FALSE, G |-> g]

\* Mutant of EdgeKey: the edge of a pair is looked up in the order given, as
\* in a directed graph.
EdgeKeyOrdered(pair) == pair

\* The edge key of a pair of node ids.
EdgeKey(pair) == {pair[1], pair[2]}

HasEdge(g, pair) == EdgeKey(pair) \in DOMAIN g.edges

\* networkx add_node: a new node goes last; an existing node keeps its place.
AddNode(nodes, id) == IF id \in Range(nodes) THEN nodes ELSE Append(nodes, id)

\* A function with one more (or one changed) mapping.
Put(f, key, value) ==
  [x \in DOMAIN f \cup {key} |-> IF x = key THEN value ELSE f[x]]

\* A function without the given key.
Drop(f, key) == [x \in DOMAIN f \ {key} |-> f[x]]

\* NxGraph.put_region: add the node region.id with attribute region.
PutRegion(g, r) ==
  [g EXCEPT !.nodes = AddNode(g.nodes, r.id),
            !.region = Put(g.region, r.id, r.intervals)]

\* NxGraph.put_overlap: add the edge with attribute intersect, which is
\* a.intersect(b), a Region or None; an existing edge keeps its other
\* attribute.
PutOverlap(g, pair) ==
  LET ab == RegionIntersect(g.region[pair[1]], g.region[pair[2]]) IN
  IF HasEdge(g, pair)
  THEN [g EXCEPT !.edges[EdgeKey(pair)].intersect = ab]
  ELSE [g EXCEPT !.nodes = AddNode(AddNode(g.nodes, pair[1]), pair[2]),
                 !.edges = Put(g.edges, EdgeKey(pair),
                               [overlaps |-> None, intersect |-> ab])]

\* NxGraph.put_temporary_overlap without `edge['overlaps'] < self.dimension`.
PutTemporaryOverlapUnbounded(g, pair) ==
  IF HasEdge(g, pair)
  THEN LET edge == g.edges[EdgeKey(pair)] IN
       IF edge.overlaps # None
       THEN Ok([g EXCEPT !.edges[EdgeKey(pair)].overlaps =
                           Some(edge.overlaps[1] + 1)])
       ELSE Raised(g)
  ELSE Ok([g EXCEPT
             !.nodes = AddNode(AddNode(g.nodes, pair[1]), pair[2]),
             !.edges = Put(g.edges, EdgeKey(pair),
                           [overlaps |-> Some(1), intersect |-> None])])

\* NxGraph.put_temporary_overlap: increment the edge's overlaps, which must
\* exist and be below the dimension, or create the edge with overlaps = 1.
PutTemporaryOverlap(g, pair) ==
  IF HasEdge(g, pair)
  THEN LET edge == g.edges[EdgeKey(pair)] IN
       IF edge.overlaps # None /\ edge.overlaps[1] < Dim
       THEN Ok([g EXCEPT !.edges[EdgeKey(pair)].overlaps =
                           Some(edge.overlaps[1] + 1)])
       ELSE Raised(g)
  ELSE Ok([g EXCEPT
             !.nodes = AddNode(AddNode(g.nodes, pair[1]), pair[2]),
             !.edges = Put(g.edges, EdgeKey(pair),
                           [overlaps |-> Some(1), intersect |-> None])])

\* Mutant of FinalizeOverlap: any counted overlap makes the edge final.
FinalizeOverlapAnyCount(g, pair) ==
  IF /\ pair[1] \in Range(g.nodes) /\ pair[2] \in Range(g.nodes)
     /\ HasEdge(g, pair)
     /\ g.edges[EdgeKey(pair)].overlaps # None
  THEN LET ab == RegionIntersect(g.region[pair[1]], g.region[pair[2]]) IN
       IF ab # None
       THEN Ok([g EXCEPT !.edges[EdgeKey(pair)] =
                           [overlaps |-> None, intersect |-> ab]])
       ELSE Raised(g)
  ELSE Raised(g)

\* Mutant of FinalizeOverlap: an edge short of the dimension is left as it
\* is instead of being removed.
FinalizeOverlapKeepsEdge(g, pair) ==
  IF /\ pair[1] \in Range(g.nodes) /\ pair[2] \in Range(g.nodes)
     /\ HasEdge(g, pair)
     /\ g.edges[EdgeKey(pair)].overlaps # None
  THEN IF g.edges[EdgeKey(pair)].overlaps[1] = Dim
       THEN LET ab == RegionIntersect(g.region[pair[1]], g.region[pair[2]]) IN
            IF ab # None
            THEN Ok([g EXCEPT !.edges[EdgeKey(pair)] =
                                [overlaps |-> None, intersect |-> ab]])
            ELSE Raised(g)
       ELSE Ok(g)
  ELSE Raised(g)

\* NxGraph.finalize_overlap: the pair must be nodes with an edge that has
\* overlaps; at overlaps = dimension the edge gets its intersect Region and
\* loses overlaps, otherwise the edge is removed.
FinalizeOverlap(g, pair) ==
  IF /\ pair[1] \in Range(g.nodes) /\ pair[2] \in Range(g.nodes)
     /\ HasEdge(g, pair)
     /\ g.edges[EdgeKey(pair)].overlaps # None
  THEN IF g.edges[EdgeKey(pair)].overlaps[1] = Dim
       THEN LET ab == IF pair[1] \in DOMAIN g.region /\ pair[2] \in DOMAIN g.region
                      THEN RegionIntersect(g.region[pair[1]], g.region[pair[2]])
                      ELSE None IN
            IF ab # None
            THEN Ok([g EXCEPT !.edges[EdgeKey(pair)] =
                                [overlaps |-> None, intersect |-> ab]])
            ELSE Raised(g)
       ELSE Ok([g EXCEPT !.edges = Drop(g.edges, EdgeKey(pair))])
  ELSE Raised(g)

\* The pairs that have a tentative edge: one with an overlaps attribute.
TentativeEdges(g) == {e \in DOMAIN g.edges : g.edges[e].overlaps # None}

\* The pairs that have a final edge: no overlaps, and an intersect Region.
FinalEdges(g) ==
  {e \in DOMAIN g.edges :
     g.edges[e].overlaps = None /\ g.edges[e].intersect # None}

(***************************************************************************)
(* NxGraphSweepCtor: the graph builder subscribed to the sweep.            *)
(***************************************************************************)

\* The builder's handler for one event.
CtorOnEvent(g, e) ==
  IF e.kind = "Init" THEN Ok(EmptyGraph)
  ELSE IF e.kind = "Begin" THEN Ok(PutRegion(g, regions[e.context[1]]))
  ELSE IF e.kind = "Intersect" THEN PutTemporaryOverlap(g, e.context)
  ELSE IF e.kind = "Finalize" THEN FinalizeOverlap(g, e.context)
  ELSE Ok(g)

\* Subscriber.on_next for the builder over one broadcast: an event whose
\* handler raises stops the delivery.
RECURSIVE CtorOnNext(_, _)
CtorOnNext(g, events) ==
  IF events = <<>> THEN Ok(g)
  ELSE LET out == CtorOnEvent(g, Head(events)) IN
       IF out.ok THEN CtorOnNext(out.G, Tail(events)) ELSE out

(***************************************************************************)
(* The event bus and RegionSweepOverlaps.                                  *)
(***************************************************************************)

Event(kind, context) == [kind |-> kind, context |-> context]

\* Mutant of OverlapsOnInit: the list is created on the first Init only and
\* kept on a later one.
OverlapsOnInitOnce == IF overlaps = None THEN Some(<<>>) ELSE overlaps

\* RegionSweepOverlaps.on_init.
OverlapsOnInit == Some(<<>>)

\* RegionSweepOverlaps.on_intersect: append the event's pair.
OverlapsOnIntersect(ov, context) == Some(Append(ov[1], context))

\* Subscriber.on_next for RegionSweepOverlaps: route each event of the
\* broadcast to its handler, in order; only Init and Intersect have one.
RECURSIVE OverlapsOnNext(_, _)
OverlapsOnNext(ov, events) ==
  IF events = <<>> THEN ov
  ELSE LET e == Head(events) IN
       OverlapsOnNext(
         IF e.kind = "Init" THEN OverlapsOnInit
         ELSE IF e.kind = "Intersect" THEN OverlapsOnIntersect(ov, e.context)
         ELSE ov,
         Tail(events))

(***************************************************************************)
(* RegionSweep: the one-pass sweep over one dimension, and its run over    *)
(* every dimension in turn for the graph builder.                          *)
(***************************************************************************)

\* What RegionSweep broadcasts on Begin(R): Begin(R), then Intersect((R, S))
\* for every S of the active set, in the active set's insertion order.
BeginBroadcast(r, acts) ==
  <<Event("Begin", <<r>>)>> \o
  [i \in 1 .. Len(acts) |-> Event("Intersect", <<r, acts[i]>>)]

\* The active set without r.
RemoveActive(acts, r) == SelectSeq(acts, LAMBDA x : x # r)

\* The subscribers of RegionSweepOverlaps' run, in subscription order:
\* SweepTaskRunner.prepare subscribes the task runner, then the subscribers
\* it was given, here one.
Subscribers == <<"overlaps", "observer">>

\* Publisher.broadcast that hands all of the events to one subscriber before
\* it turns to the next.
BroadcastBySubscriber(subs, events) ==
  [j \in 1 .. 2 * Len(subs) * Len(events) |->
     [to |-> subs[((j - 1) \div (2 * Len(events))) + 1],
      event |-> events[(((j - 1) % (2 * Len(events))) \div 2) + 1],
      step |-> IF j % 2 = 1 THEN "call" ELSE "return"]]

\* Publisher.broadcast of the events, one after the other: each is handed to
\* the subscribers in subscription order, and on_next returns before the
\* next subscriber is called.
Broadcast(subs, events) ==
  [j \in 1 .. 2 * Len(subs) * Len(events) |->
     [to |-> subs[(((j - 1) % (2 * Len(subs))) \div 2) + 1],
      event |-> events[((j - 1) \div (2 * Len(subs))) + 1],
      step |-> IF j % 2 = 1 THEN "call" ELSE "return"]]

\* Publisher.broadcast to the subscribed task runner t: what it holds after
\* the events, and whether a handler raised.
LogAfter(t, events) ==
  IF t = "overlaps" THEN log \o Broadcast(Subscribers, events) ELSE log

OverlapsAfter(t, events) ==
  IF t = "overlaps" THEN OverlapsOnNext(overlaps, events) ELSE overlaps

GraphAfter(t, events) ==
  IF t = "graph" THEN CtorOnNext(G, events) ELSE Ok(G)

\* RegionSweepOverlaps.prepare(regions) and the start of evaluate() on
\* dimension k: the sweep binds the timeline and broadcasts Init.
Evaluate(k) ==
  /\ UNCHANGED svars
  /\ pc = "build"
  /\ k \in Dims
  /\ pc' = "sweep"
  /\ task' = "overlaps"
  /\ dimension' = k
  /\ timeline' = OneDimenEvents(regions, k)
  /\ pos' = 1
  /\ actives' = <<>>
  /\ published' = <<Event("Init", <<>>)>>
  /\ log' = Broadcast(Subscribers, <<Event("Init", <<>>)>>)
  /\ overlaps' = OverlapsAfter("overlaps", <<Event("Init", <<>>)>>)
  /\ UNCHANGED qvars
  /\ UNCHANGED <<regions, G, finalized>>

\* NxGraphSweepCtor.prepare(regions) and the start of evaluate(): the sweep
\* starts on dimension 0 and broadcasts Init.
EvaluateCtor ==
  /\ UNCHANGED svars
  /\ pc = "build"
  /\ pc' = "sweep"
  /\ task' = "graph"
  /\ dimension' = 0
  /\ timeline' = OneDimenEvents(regions, 0)
  /\ pos' = 1
  /\ actives' = <<>>
  /\ published' = <<Event("Init", <<>>)>>
  /\ log' = <<>>
  /\ G' = GraphAfter("graph", <<Event("Init", <<>>)>>).G
  /\ finalized' = {}
  /\ UNCHANGED qvars
  /\ UNCHANGED <<regions, overlaps>>

\* How many runs the subscribers have seen: the Init events published.
Runs ==
  Cardinality({i \in 1 .. Len(published) : published[i].kind = "Init"})

\* Another RegionSweep over the set, on dimension k, after a run has ended:
\* the same RegionSweepOverlaps is subscribed to it and receives its Init.
EvaluateAgain(k) ==
  /\ UNCHANGED svars
  /\ task = "overlaps"
  /\ pc \in {"done", "failed"}
  /\ Runs < MaxRuns
  /\ k \in Dims
  /\ pc' = "sweep"
  /\ dimension' = k
  /\ timeline' = OneDimenEvents(regions, k)
  /\ pos' = 1
  /\ actives' = <<>>
  /\ published' = Append(published, Event("Init", <<>>))
  /\ log' = LogAfter(task, <<Event("Init", <<>>)>>)
  /\ overlaps' = OverlapsAfter(task, <<Event("Init", <<>>)>>)
  /\ UNCHANGED qvars
  /\ UNCHANGED <<regions, task, G, finalized>>

\* RegionSweep on a Begin event of the timeline.
OnBegin ==
  /\ UNCHANGED svars
  /\ pc = "sweep"
  /\ pos <= Len(timeline)
  /\ timeline[pos].kind = "Begin"
  /\ LET r == timeline[pos].context
         bcast == BeginBroadcast(r, actives)
         out == GraphAfter(task, bcast) IN
     /\ published' = published \o bcast
     /\ log' = LogAfter(task, bcast)
     /\ overlaps' = OverlapsAfter(task, bcast)
     /\ G' = out.G
     /\ pc' = IF out.ok THEN pc ELSE "failed"
     /\ actives' = Append(actives, r)
  /\ pos' = pos + 1
  /\ UNCHANGED qvars
  /\ UNCHANGED <<regions, task, dimension, timeline, finalized>>

\* RegionSweep on an End event: remove R from the active set, broadcast
\* End(R).  Removing a Region that is not active is the fatal
\* active-set underflow: the sweep aborts.
OnEnd ==
  /\ UNCHANGED svars
  /\ pc = "sweep"
  /\ pos <= Len(timeline)
  /\ timeline[pos].kind = "End"
  /\ LET r == timeline[pos].context IN
     IF r \in Range(actives)
     THEN /\ actives' = RemoveActive(actives, r)
          /\ published' = Append(published, Event("End", <<r>>))
          /\ log' = LogAfter(task, <<Event("End", <<r>>)>>)
          /\ overlaps' = OverlapsAfter(task, <<Event("End", <<r>>)>>)
          /\ G' = GraphAfter(task, <<Event("End", <<r>>)>>).G
          /\ pos' = pos + 1
          /\ UNCHANGED pc
     ELSE /\ pc' = "failed"
          /\ UNCHANGED <<actives, published, log, overlaps, G, pos>>
  /\ UNCHANGED qvars
  /\ UNCHANGED <<regions, task, dimension, timeline, finalized>>

\* The timeline of the only dimension is exhausted: broadcast Done.
OnDone ==
  /\ UNCHANGED svars
  /\ pc = "sweep"
  /\ task = "overlaps"
  /\ pos > Len(timeline)
  /\ pc' = "done"
  /\ published' = Append(published, Event("Done", <<>>))
  /\ log' = LogAfter(task, <<Event("Done", <<>>)>>)
  /\ overlaps' = OverlapsAfter(task, <<Event("Done", <<>>)>>)
  /\ UNCHANGED qvars
  /\ UNCHANGED <<regions, task, dimension, timeline, pos, actives, G,
                 finalized>>

\* The graph builder's sweep has exhausted a dimension that is not the
\* last: it goes on with the next dimension's timeline.
OnNextDimension ==
  /\ UNCHANGED svars
  /\ pc = "sweep"
  /\ task = "graph"
  /\ pos > Len(timeline)
  /\ dimension < Dim - 1
  /\ dimension' = dimension + 1
  /\ timeline' = OneDimenEvents(regions, dimension + 1)
  /\ pos' = 1
  /\ actives' = <<>>
  /\ UNCHANGED qvars
  /\ UNCHANGED <<regions, pc, task, published, log, overlaps, G, finalized>>

\* All dimensions are processed.
AllDimensionsDone ==
  pc = "sweep" /\ task = "graph" /\ pos > Len(timeline) /\ dimension = Dim - 1

\* The pair of ids of an edge key, smaller id first.
PairOf(e) ==
  LET a == CHOOSE x \in e : \A y \in e : x <= y
      b == CHOOSE y \in e : \A x \in e : x <= y IN
  <<a, b>>

\* After all dimensions: Finalize is published for a candidate, a pair
\* that has a tentative edge, and the builder finalizes it.
OnFinalize(e) ==
  /\ UNCHANGED svars
  /\ AllDimensionsDone
  /\ e \in TentativeEdges(G)
  /\ LET ev == Event("Finalize", PairOf(e))
         out == GraphAfter(task, <<ev>>) IN
     /\ published' = Append(published, ev)
     /\ log' = LogAfter(task, <<ev>>)
     /\ G' = out.G
     /\ pc' = IF out.ok THEN pc ELSE "failed"
  /\ finalized' = finalized \cup {e}
  /\ UNCHANGED qvars
  /\ UNCHANGED <<regions, task, dimension, timeline, pos, actives, overlaps>>

\* Every candidate is finalized: broadcast Done; the graph is built.
CtorDone ==
  /\ UNCHANGED svars
  /\ AllDimensionsDone
  /\ TentativeEdges(G) = {}
  /\ pc' = "done"
  /\ published' = Append(published, Event("Done", <<>>))
  /\ log' = LogAfter(task, <<Event("Done", <<>>)>>)
  /\ G' = GraphAfter(task, <<Event("Done", <<>>)>>).G
  /\ UNCHANGED qvars
  /\ UNCHANGED <<regions, task, dimension, timeline, pos, actives, overlaps,
                 finalized>>

\* The pairs of member ids.
Pairs == {e \in SUBSET (1 .. MaxN) : Cardinality(e) = 2}

(***************************************************************************)
(* A graph filled by hand through NxGraph's insertion methods.             *)
(***************************************************************************)

\* NxGraph(dimension): a new, empty graph for the Regions of the set.
NewGraph ==
  /\ UNCHANGED svars
  /\ pc = "build"
  /\ task' = "api"
  /\ pc' = "put"
  /\ G' = EmptyGraph
  /\ UNCHANGED qvars
  /\ UNCHANGED <<regions, dimension, timeline, pos, actives, published, log,
                 overlaps, finalized>>

\* graph.put_region(region), for the set's Regions in their order.
PutRegionCall ==
  /\ UNCHANGED svars
  /\ task = "api" /\ pc = "put"
  /\ Len(G.nodes) < Len(regions)
  /\ G' = PutRegion(G, regions[Len(G.nodes) + 1])
  /\ UNCHANGED qvars
  /\ UNCHANGED <<regions, pc, task, dimension, timeline, pos, actives,
                 published, log, overlaps, finalized>>

\* graph.put_overlap((a, b)) for two Regions that are nodes of the graph.
PutOverlapCall(a, b) ==
  /\ UNCHANGED svars
  /\ task = "api" /\ pc = "put"
  /\ a \in Range(G.nodes) /\ b \in Range(G.nodes) /\ a # b
  /\ ~HasEdge(G, <<a, b>>)
  /\ G' = PutOverlap(G, <<a, b>>)
  /\ UNCHANGED qvars
  /\ UNCHANGED <<regions, pc, task, dimension, timeline, pos, actives,
                 published, log, overlaps, finalized>>

\* graph.put_temporary_overlap((a, b)) for two Regions that are nodes of
\* the graph; an AssertionError ends the filling.
PutTemporaryOverlapCall(a, b) ==
  /\ task = "api" /\ pc = "put"
  /\ a \in Range(G.nodes) /\ b \in Range(G.nodes) /\ a # b
  /\ LET out == PutTemporaryOverlap(G, <<a, b>>)
     IN  /\ G' = out.G
         /\ ret' = [ok |-> out.ok, val |-> <<>>]
         /\ pc' = IF out.ok THEN pc ELSE "failed"
  /\ call' = [op |-> "put_temporary_overlap", arg |-> <<a, b>>]
  /\ UNCHANGED rset
  /\ UNCHANGED qvars
  /\ UNCHANGED <<regions, task, dimension, timeline, pos, actives,
                 published, log, overlaps, finalized>>

\* graph.finalize_overlap((a, b)) for two ids, on a graph filled by hand; an
\* AssertionError ends the filling.
FinalizeOverlapCall(a, b) ==
  /\ task = "api" /\ pc = "put"
  /\ a # b
  /\ LET out == FinalizeOverlap(G, <<a, b>>)
     IN  /\ G' = out.G
         /\ ret' = [ok |-> out.ok, val |-> <<>>]
         /\ pc' = IF out.ok THEN pc ELSE "failed"
  /\ call' = [op |-> "finalize_overlap", arg |-> <<a, b>>]
  /\ finalized' = finalized \cup {EdgeKey(<<a, b>>)}
  /\ UNCHANGED rset
  /\ UNCHANGED qvars
  /\ UNCHANGED <<regions, task, dimension, timeline, pos, actives,
                 published, log, overlaps>>

(***************************************************************************)
(* NxGraph: to_object and from_object.                                     *)
(*                                                                         *)
(* The graph data is a record [format, type, G]: the json_graph format it  *)
(* is written in, whether it is a dict or a str, and the graph it holds.   *)
(* A call returns [ok, error, val]: error names the exception raised.      *)
(***************************************************************************)

\* The formats x for which networkx.readwrite.json_graph has the functions
\* x_data and x_graph.
JsonGraphFormats == {"node_link", "adjacency", "cytoscape", "jit", "tree"}

\* hasattr(json_graph, f'{datafmt}_data'), and the same for _graph.
HasJsonGraph(datafmt) == datafmt \in JsonGraphFormats

RaisedError(error) == [ok |-> FALSE, error |-> error, val |-> None]
ReturnedValue(val) == [ok |-> TRUE, error |-> "", val |-> Some(val)]

\* method(G) of to_data, for a format json_graph has: tree_data wants a root
\* as well, jit_data returns the JSON text, the others a dict.
JsonGraphData(g, datafmt) ==
  IF datafmt = "tree" THEN RaisedError("TypeError")
  ELSE ReturnedValue([format |-> datafmt,
                  type |-> IF datafmt = "jit" THEN "str" ELSE "dict",
                  G |-> g])

\* to_data(G, datafmt) of NxGraph.to_object.
to_data(g, datafmt) ==
  IF HasJsonGraph(datafmt) THEN JsonGraphData(g, datafmt)
  ELSE RaisedError("ValueError")

\* NxGraph.to_object(object, **kwargs): kwargs is None, or the json_graph
\* option given.
NxGraph_to_object(g, kwargs) ==
  LET datafmt == IF kwargs # None THEN kwargs[1] ELSE "node-link"
      data == to_data(g, datafmt)
  IN  IF data.ok
      THEN ReturnedValue([dimension |-> Dim, json_graph |-> datafmt,
                      graph |-> data.val[1]])
      ELSE data

\* method(data) of to_graph, for a format json_graph has: the reader of one
\* format fails on the data of another.
JsonGraphGraph(data, datafmt) ==
  IF data.format = datafmt THEN ReturnedValue(data.G)
  ELSE RaisedError("KeyError")

\* to_graph(data, datafmt) of NxGraph.from_object.
to_graph(data, datafmt) ==
  IF HasJsonGraph(datafmt) THEN JsonGraphGraph(data, datafmt)
  ELSE RaisedError("ValueError")

\* NxGraph.from_object(object): the assertions on the object, to_graph, and
\* the assertion that the graph has the object's dimension.
NxGraph_from_object(object) ==
  IF object.graph.type # "dict" \/ object.dimension <= 0
  THEN RaisedError("AssertionError")
  ELSE LET loaded == to_graph(object.graph, object.json_graph)
       IN  IF ~loaded.ok THEN loaded
           ELSE IF object.dimension # Dim THEN RaisedError("AssertionError")
           ELSE loaded

\* NxGraph.to_object(graph), or NxGraph.to_object(graph, json_graph=...).
GraphToObjectCall(kwargs) ==
  /\ task = "api" /\ pc = "put"
  /\ task' = "io"
  /\ LET out == NxGraph_to_object(G, kwargs)
     IN  /\ ret' = out
         /\ pc' = IF out.ok THEN "done" ELSE "failed"
  /\ call' = [op |-> "NxGraph.to_object", arg |-> <<kwargs>>]
  /\ UNCHANGED rset
  /\ UNCHANGED qvars
  /\ UNCHANGED <<regions, dimension, timeline, pos, actives, published, log,
                 overlaps, G, finalized>>

\* NxGraph.from_object(object), for the object to_object returned, with its
\* json_graph left as it is or set to another name.
GraphFromObjectCall(name) ==
  /\ task = "io" /\ call.op = "NxGraph.to_object" /\ ret.ok
  /\ LET object == [ret.val[1] EXCEPT !.json_graph = name]
         out == NxGraph_from_object(object)
     IN  /\ ret' = out
         /\ pc' = IF out.ok THEN "done" ELSE "failed"
         /\ call' = [op |-> "NxGraph.from_object", arg |-> <<object>>]
  /\ UNCHANGED rset
  /\ UNCHANGED qvars
  /\ UNCHANGED <<regions, task, dimension, timeline, pos, actives, published,
                 log, overlaps, G, finalized>>

(***************************************************************************)
(* EnumerateByNxGraph: all intersections from the cliques of the graph.    *)
(***************************************************************************)

\* The neighbours of node u that come after it in the node order.
LaterNbrs(g, u) ==
  LET at(x) == CHOOSE i \in 1 .. Len(g.nodes) : g.nodes[i] = x IN
  {v \in Range(g.nodes) : HasEdge(g, <<u, v>>) /\ at(v) > at(u)}

\* The breadth-first queue of nx.enumerate_all_cliques: each entry is a
\* clique (base) and the common later neighbours that can extend it.
RECURSIVE CliqueBFS(_, _)
CliqueBFS(g, queue) ==
  IF queue = <<>> THEN <<>>
  ELSE LET h == Head(queue)
           n == Len(h.cnbrs)
           ext == [i \in 1 .. n |->
                     [base |-> Append(h.base, h.cnbrs[i]),
                      cnbrs |-> SelectSeq(SubSeq(h.cnbrs, i + 1, n),
                                  LAMBDA v : v \in LaterNbrs(g, h.cnbrs[i]))]]
       IN <<h.base>> \o CliqueBFS(g, Tail(queue) \o ext)

\* nx.enumerate_all_cliques yielding the cliques from the last to the first.
EnumerateAllCliquesReversed(g) ==
  LET all == CliqueBFS(g, [i \in 1 .. Len(g.nodes) |->
                             [base |-> <<g.nodes[i]>>,
                              cnbrs |-> SelectSeq(g.nodes,
                                          LAMBDA v :
                                            v \in LaterNbrs(g, g.nodes[i]))]])
  IN  [i \in 1 .. Len(all) |-> all[Len(all) + 1 - i]]

\* nx.enumerate_all_cliques(graph.G): every clique, by increasing size; the
\* cliques of one size in the order the node order induces.
EnumerateAllCliques(g) ==
  CliqueBFS(g, [i \in 1 .. Len(g.nodes) |->
                  [base |-> <<g.nodes[i]>>,
                   cnbrs |-> SelectSeq(g.nodes,
                               LAMBDA v : v \in LaterNbrs(g, g.nodes[i]))]])

\* The outcome of one iteration of compute's loop: whether the assertion
\* held, and what the iteration yields.
Yield(out) == [ok |-> TRUE, yield |-> out]
AssertionError == [ok |-> FALSE, yield |-> <<>>]

\* The list comprehension of compute: the Regions of the clique's nodes.
CliqueRegions(g, clique) == [i \in 1 .. Len(clique) |-> g.region[clique[i]]]

\* Mutant of ComputeClique: the size of the clique is not looked at.
ComputeCliqueAnySize(g, clique) ==
  LET region == FromIntersect(CliqueRegions(g, clique)) IN
  IF region # None
  THEN Yield(<<[intersect |-> region[1], parents |-> clique]>>)
  ELSE AssertionError

\* EnumerateByNxGraph.compute, the body of its loop for one clique: a clique
\* of more than one node yields (region, intersect), the intersection of
\* its Regions and the Regions; the intersection is asserted to be a Region.
ComputeClique(g, clique) ==
  IF Len(clique) > 1
  THEN LET region == FromIntersect(CliqueRegions(g, clique)) IN
       IF region # None
       THEN Yield(<<[intersect |-> region[1], parents |-> clique]>>)
       ELSE AssertionError
  ELSE Yield(<<>>)

\* EnumerateByNxGraph.prepare(context)(): the context is a graph filled by
\* hand, or a RegionSet whose graph the builder has constructed; results
\* starts the iteration over the cliques.
EnumerateStart ==
  /\ UNCHANGED svars
  /\ \/ task = "api" /\ pc = "put" /\ Len(G.nodes) = Len(regions)
     \/ task = "graph" /\ pc = "done"
  /\ task' = "enumerate"
  /\ pc' = "compute"
  /\ cliques' = EnumerateAllCliques(G)
  /\ results' = <<>>
  /\ UNCHANGED <<cycle, intersects, query, srq, srqrc, status>>
  /\ UNCHANGED <<regions, dimension, timeline, pos, actives, published, log,
                 overlaps, G, finalized>>

\* One iteration of compute's loop.
ComputeNext ==
  /\ UNCHANGED svars
  /\ task = "enumerate" /\ pc = "compute"
  /\ cliques # <<>>
  /\ LET out == ComputeClique(G, Head(cliques)) IN
     /\ results' = results \o out.yield
     /\ pc' = IF out.ok THEN pc ELSE "failed"
  /\ cliques' = Tail(cliques)
  /\ UNCHANGED <<cycle, intersects, query, srq, srqrc, status>>
  /\ UNCHANGED <<regions, task, dimension, timeline, pos, actives, published, log,
                 overlaps, G, finalized>>

\* The cliques are exhausted: the iterator of results ends.
ComputeEnd ==
  /\ UNCHANGED svars
  /\ task = "enumerate" /\ pc = "compute"
  /\ cliques = <<>>
  /\ pc' = "done"
  /\ UNCHANGED qvars
  /\ UNCHANGED <<regions, task, dimension, timeline, pos, actives, published, log,
                 overlaps, G, finalized>>

(***************************************************************************)
(* RegionCycleSweep and EnumerateByRCSweep: all intersections by the       *)
(* cyclic multi-pass sweep, and its restricted variant.                    *)
(*                                                                         *)
(* A Region of a pass's input set S_i is a record [id, intervals, parents]:*)
(* its position in S_i, and the ids of the Regions of S_0 it is the        *)
(* intersection of.                                                        *)
(***************************************************************************)

\* The ids of the set ids as a sorted list.
SortedIds(ids) ==
  SelectSeq([i \in 1 .. Max(MaxN, MaxPassN) |-> i], LAMBDA i : i \in ids)

\* S_0: the input RegionSet; each Region is its own only parent.
InputLevel ==
  [i \in 1 .. Len(regions) |->
     [id |-> i, intervals |-> regions[i].intervals, parents |-> {i}]]

\* One RegionSweep run over the timeline tl, from the active set acts: the
\* payloads of the Intersect events it publishes, in order, and whether it
\* ran to its end (an End of a Region that is not active aborts it).
RECURSIVE SweepPairs(_, _, _)
SweepPairs(tl, acts, out) ==
  IF tl = <<>> THEN [ok |-> TRUE, pairs |-> out]
  ELSE LET e == Head(tl)
           r == e.context IN
       IF e.kind = "Begin"
       THEN SweepPairs(Tail(tl), Append(acts, r),
                       out \o [i \in 1 .. Len(acts) |-> <<r, acts[i]>>])
       ELSE IF r \in Range(acts)
            THEN SweepPairs(Tail(tl), RemoveActive(acts, r), out)
            ELSE [ok |-> FALSE, pairs |-> out]

\* Mutant of AddIntersects: every non-empty intersection is added, whatever
\* the size of its parent set and whether or not it was added before.
RECURSIVE AddIntersectsNaive(_, _, _, _, _)
AddIntersectsNaive(level, pairs, size, r, next) ==
  IF pairs = <<>> THEN next
  ELSE LET a == level[Head(pairs)[1]]
           b == level[Head(pairs)[2]]
           region == RegionIntersect(a.intervals, b.intervals)
           parents == a.parents \cup b.parents
           keep == /\ region # None
                   /\ r = 0 \/ r \in parents
       IN AddIntersectsNaive(level, Tail(pairs), size, r,
            IF keep
            THEN Append(next, [id |-> Len(next) + 1, intervals |-> region[1],
                               parents |-> parents])
            ELSE next)

\* Mutant of AddIntersects: a Region is added for every candidate, also
\* when a Region with the same parent set was added before.
RECURSIVE AddIntersectsNoDedup(_, _, _, _, _)
AddIntersectsNoDedup(level, pairs, size, r, next) ==
  IF pairs = <<>> THEN next
  ELSE LET a == level[Head(pairs)[1]]
           b == level[Head(pairs)[2]]
           region == RegionIntersect(a.intervals, b.intervals)
           parents == a.parents \cup b.parents
           keep == /\ region # None
                   /\ Cardinality(parents) = size
                   /\ r = 0 \/ r \in parents
       IN AddIntersectsNoDedup(level, Tail(pairs), size, r,
            IF keep
            THEN Append(next, [id |-> Len(next) + 1, intervals |-> region[1],
                               parents |-> parents])
            ELSE next)

\* Mutant of AddIntersects: a candidate is added whatever the size of its
\* parent set.
RECURSIVE AddIntersectsAnySize(_, _, _, _, _)
AddIntersectsAnySize(level, pairs, size, r, next) ==
  IF pairs = <<>> THEN next
  ELSE LET a == level[Head(pairs)[1]]
           b == level[Head(pairs)[2]]
           region == RegionIntersect(a.intervals, b.intervals)
           parents == a.parents \cup b.parents
           keep == /\ region # None
                   /\ r = 0 \/ r \in parents
                   /\ \A i \in 1 .. Len(next) : next[i].parents # parents
       IN AddIntersectsAnySize(level, Tail(pairs), size, r,
            IF keep
            THEN Append(next, [id |-> Len(next) + 1, intervals |-> region[1],
                               parents |-> parents])
            ELSE next)

\* The pass's handling of the published Intersect((A, B)) events, in order:
\* the intersection of A and B is added to the next set when it is not
\* empty, its parent set has the given size, no Region with the same parent
\* set was added before and, in the restricted variant (r # 0), r is one of
\* its parents.
RECURSIVE AddIntersects(_, _, _, _, _)
AddIntersects(level, pairs, size, r, next) ==
  IF pairs = <<>> THEN next
  ELSE LET a == level[Head(pairs)[1]]
           b == level[Head(pairs)[2]]
           region == RegionIntersect(a.intervals, b.intervals)
           parents == a.parents \cup b.parents
           keep == /\ region # None
                   /\ Cardinality(parents) = size
                   /\ r = 0 \/ r \in parents
                   /\ \A i \in 1 .. Len(next) : next[i].parents # parents
       IN AddIntersects(level, Tail(pairs), size, r,
            IF keep
            THEN Append(next, [id |-> Len(next) + 1, intervals |-> region[1],
                               parents |-> parents])
            ELSE next)

\* The results (region, intersect) of the Regions of a set S_i, i >= 1.
LevelResults(level) ==
  [i \in 1 .. Len(level) |->
     [intersect |-> level[i].intervals,
      parents |-> SortedIds(level[i].parents)]]

\* EnumerateByRCSweep.prepare(regions)(): the cyclic sweep starts with pass
\* 0 over the input RegionSet.  How the enumeration over the graph of the
\* same RegionSet ended is kept.
EvaluateCycle ==
  /\ UNCHANGED svars
  /\ \/ task = "graph" /\ pc = "failed"
     \/ task = "enumerate" /\ pc \in {"done", "failed"}
  /\ status' = [status EXCEPT
                  !.nx = IF task = "enumerate" /\ pc = "done"
                         THEN "ok" ELSE "failed"]
  /\ task' = "cycle"
  /\ pc' = "pass"
  /\ cycle' = [pass |-> 0, level |-> InputLevel]
  /\ intersects' = <<>>
  /\ UNCHANGED <<cliques, results, query, srq, srqrc>>
  /\ UNCHANGED <<regions, dimension, timeline, pos, actives, published, log,
                 overlaps, G, finalized>>

\* RegionCycleSweep.evaluate() over the input RegionSet, with
\* EnumerateByRCSweep subscribed: pass 0 is about to run.
CycleEvaluate ==
  /\ UNCHANGED svars
  /\ pc = "build"
  /\ task' = "cycle"
  /\ pc' = "pass"
  /\ cycle' = [pass |-> 0, level |-> InputLevel]
  /\ intersects' = <<>>
  /\ UNCHANGED <<cliques, results, query, srq, srqrc, status>>
  /\ UNCHANGED <<regions, dimension, timeline, pos, actives, published, log,
                 overlaps, G, finalized>>

\* SRQEnumByRCSweep.compute: the intersections that have the Region r among
\* their parents.
RestrictedCompute(res, r) ==
  SelectSeq(res, LAMBDA x : r \in Range(x.parents))

\* One pass of the cyclic sweep: RegionSweep over S_i on dimension 0, the
\* next set S_i+1 from its Intersect events; the run ends when the pass
\* adds no Region.
CyclePass ==
  /\ UNCHANGED svars
  /\ task \in {"cycle", "srqcycle"}
  /\ pc = "pass"
  /\ LET sweep == SweepPairs(Events(cycle.level, 0), <<>>, <<>>)
         next == AddIntersects(cycle.level, sweep.pairs, cycle.pass + 2,
                               IF task = "srqcycle" THEN query ELSE 0, <<>>)
     IN
     IF ~sweep.ok
     THEN /\ pc' = "failed"
          /\ UNCHANGED <<cycle, intersects, srqrc>>
     ELSE IF next = <<>>
     THEN /\ pc' = "done"
          /\ UNCHANGED <<cycle, intersects, srqrc>>
     ELSE /\ cycle' = [pass |-> cycle.pass + 1, level |-> next]
          /\ IF task = "cycle"
             THEN /\ intersects' = intersects \o LevelResults(next)
                  /\ UNCHANGED srqrc
             ELSE /\ srqrc' = srqrc \o
                              RestrictedCompute(LevelResults(next), query)
                  /\ UNCHANGED intersects
          /\ UNCHANGED pc
  /\ UNCHANGED <<cliques, results, query, srq, status>>
  /\ UNCHANGED <<regions, task, dimension, timeline, pos, actives, published, log,
                 overlaps, G, finalized>>

(***************************************************************************)
(* The single-region queries.                                              *)
(***************************************************************************)

\* nx.neighbors(G, r).
Neighbors(g, r) == {v \in Range(g.nodes) : HasEdge(g, <<r, v>>)}

\* The subgraph of g induced by the nodes ids.
Subgraph(g, ids) ==
  [nodes |-> SelectSeq(g.nodes, LAMBDA v : v \in ids),
   region |-> [v \in DOMAIN g.region \cap ids |-> g.region[v]],
   edges |-> [e \in {x \in DOMAIN g.edges : x \subseteq ids} |-> g.edges[e]]]

\* Mutant of SRQCompute: every result of the subgraph is passed on.
SRQComputeUnfiltered(g, r, clique) == ComputeClique(g, clique)

\* SRQEnumByNxGraph.compute, for one clique: what EnumerateByNxGraph.compute
\* yields for it, when the Region r is one of the intersecting Regions.
SRQCompute(g, r, clique) ==
  LET out == ComputeClique(g, clique) IN
  [ok |-> out.ok,
   yield |-> SelectSeq(out.yield, LAMBDA x : r \in Range(x.parents))]

\* SRQEnumByNxGraph over the graph of the RegionSet, for the Region r: the
\* cliques are those of the subgraph of r and its neighbours.  When the
\* construction of the graph failed there is no graph to query, and the
\* constructor asserts that r is a node of the graph.
SRQStart(r) ==
  /\ UNCHANGED svars
  /\ task = "cycle" /\ pc \in {"done", "failed"}
  /\ status' = [status EXCEPT !.rc = IF pc = "done" THEN "ok" ELSE "failed"]
  /\ task' = "srq"
  /\ query' = r
  /\ srq' = <<>>
  /\ IF status.nx = "ok" /\ r \in Range(G.nodes)
     THEN /\ cliques' = EnumerateAllCliques(
                          Subgraph(G, {r} \cup Neighbors(G, r)))
          /\ pc' = "compute"
     ELSE /\ cliques' = <<>>
          /\ pc' = "failed"
  /\ UNCHANGED <<results, cycle, intersects, srqrc>>
  /\ UNCHANGED <<regions, dimension, timeline, pos, actives, published, log,
                 overlaps, G, finalized>>

\* One iteration of SRQEnumByNxGraph.compute.
SRQNext ==
  /\ UNCHANGED svars
  /\ task = "srq" /\ pc = "compute"
  /\ cliques # <<>>
  /\ LET out == SRQCompute(G, query, Head(cliques)) IN
     /\ srq' = srq \o out.yield
     /\ pc' = IF out.ok THEN pc ELSE "failed"
  /\ cliques' = Tail(cliques)
  /\ UNCHANGED <<results, cycle, intersects, query, srqrc, status>>
  /\ UNCHANGED <<regions, task, dimension, timeline, pos, actives, published, log,
                 overlaps, G, finalized>>

\* The cliques of the subgraph are exhausted.
SRQEnd ==
  /\ UNCHANGED svars
  /\ task = "srq" /\ pc = "compute"
  /\ cliques = <<>>
  /\ pc' = "done"
  /\ UNCHANGED qvars
  /\ UNCHANGED <<regions, task, dimension, timeline, pos, actives, published, log,
                 overlaps, G, finalized>>

\* SRQEnumByRCSweep.prepare(regions, region)(): the restricted cyclic sweep
\* for the same Region; prepare asserts `region in regions`.
EvaluateRestricted ==
  /\ UNCHANGED svars
  /\ task = "srq" /\ pc \in {"done", "failed"}
  /\ status' = [status EXCEPT !.srq = IF pc = "done" THEN "ok" ELSE "failed"]
  /\ task' = "srqcycle"
  /\ IF query \in RegionIds
     THEN /\ pc' = "pass"
          /\ cycle' = [pass |-> 0, level |-> InputLevel]
     ELSE /\ pc' = "failed"
          /\ UNCHANGED cycle
  /\ srqrc' = <<>>
  /\ UNCHANGED <<cliques, results, intersects, query, srq>>
  /\ UNCHANGED <<regions, dimension, timeline, pos, actives, published, log,
                 overlaps, G, finalized>>

(***************************************************************************)
(* RegionSet: the dataset operations.                                      *)
(*                                                                         *)
(* Here a Region is a record [id, intervals, intersect, union]: a string   *)
(* id, one Interval per dimension 0 .. d-1, and the optional lists of the  *)
(* ids of the Regions it was derived from.  A RegionSet is a record        *)
(* [id, dimension, bounds, regions].  An operation that can raise returns  *)
(* [ok, val]: ok is FALSE when an assertion failed.                        *)
(***************************************************************************)

\* Bounds of the dataset model: the number of Regions added to a RegionSet,
\* the number of distinct Region ids, and the length of the id list given to
\* subset.
MaxLen == 2
MaxIds == 2
MaxSubset == 2
MaxMembers == 3

\* to_base26(n): "A" for 1, "B" for 2, ...
ToBase26(n) ==
  <<"A", "B", "C", "D", "E", "F", "G", "H", "I", "J", "K", "L", "M",
    "N", "O", "P", "Q", "R", "S", "T", "U", "V", "W", "X", "Y", "Z">>[n]

Ids == {ToBase26(n) : n \in 1 .. MaxIds}

\* str(uuid4()): the id given to an object constructed without one.
Uuid4 == "uuid4"

\* The dimensions of the RegionSets constructed; Regions of every dimension
\* up to Dim are offered to them.
SetDims == 1 .. (Dim - 1)

\* Region(lower, upper, id): a Region that is not derived from others.
NewRegion(id, ivs) ==
  [id |-> id, intervals |-> ivs, intersect |-> None, union |-> None]

\* Region.dimension.
RegionDimension(r) == Cardinality(DOMAIN r.intervals)

\* Region.encloses: Interval.encloses in every dimension.
Encloses(a, b) ==
  /\ DOMAIN a.intervals = DOMAIN b.intervals
  /\ \A k \in DOMAIN a.intervals :
       /\ a.intervals[k].lower <= b.intervals[k].lower
       /\ b.intervals[k].upper <= a.intervals[k].upper

\* Region.union of two Regions: the bounding Region, with a new id.
RegionUnion(a, b) ==
  NewRegion(Uuid4,
            [k \in DOMAIN a.intervals |->
               [lower |-> Min(a.intervals[k].lower, b.intervals[k].lower),
                upper |-> Max(a.intervals[k].upper, b.intervals[k].upper)]])

\* Region.from_union over a non-empty list: the bounding Region of them all.
RECURSIVE UnionFold(_, _)
UnionFold(acc, list) ==
  IF list = <<>> THEN acc
  ELSE UnionFold(RegionUnion(acc, Head(list)), Tail(list))

FromUnion(list) == UnionFold(Head(list), Tail(list))

\* The Regions of dimension d offered to the operations.
RegionPool(d) ==
  {NewRegion(id, ivs) : id \in Ids, ivs \in [0 .. (d - 1) -> Intervals]}

\* Regions of dimension d with the same Interval in every dimension.
Cubes(d) ==
  {NewRegion(id, [k \in 0 .. (d - 1) |-> iv]) : id \in Ids, iv \in Intervals}

\* The Regions offered to the operations: all of the dimensions the sets
\* have, and some of every dimension.
AddPool ==
  UNION {RegionPool(d) : d \in SetDims} \cup UNION {Cubes(e) : e \in 1 .. Dim}

\* The bounding Regions offered to the constructor.
BoundsPool ==
  UNION {{NewRegion(Uuid4, ivs) : ivs \in [0 .. (d - 1) -> Intervals]} :
         d \in SetDims}

\* The bounding Regions offered to filter: those, and some of dimension Dim.
FilterPool ==
  BoundsPool \cup {NewRegion(Uuid4, [k \in Dims |-> iv]) : iv \in Intervals}

\* RegionSet.__init__(id, bounds, dimension).
RegionSet(id, bounds, dim) ==
  LET d == IF bounds # None THEN RegionDimension(bounds[1]) ELSE dim
  IN  IF d > 0
      THEN [ok |-> TRUE,
            val |-> [id |-> IF id # "" THEN id ELSE Uuid4, dimension |-> d,
                     bounds |-> bounds, regions |-> <<>>]]
      ELSE [ok |-> FALSE, val |-> None]

\* RegionSet._instance_invariant.
instance_invariant(s) ==
  \A i \in 1 .. Len(s.regions) :
    /\ RegionDimension(s.regions[i]) = s.dimension
    /\ s.bounds = None \/ Encloses(s.bounds[1], s.regions[i])

\* RegionSet.minbounds: None for an empty set.
minbounds(s) ==
  IF Len(s.regions) = 0 THEN None
  ELSE IF Len(s.regions) = 1 THEN Some(s.regions[1])
  ELSE Some(FromUnion(s.regions))

\* RegionSet.bbox.
bbox(s) == IF s.bounds = None THEN minbounds(s) ELSE s.bounds

\* RegionSet.get(id): the first Region with this id, or None; the id must
\* not be empty.
get(s, id) ==
  IF id = "" THEN [ok |-> FALSE, val |-> None]
  ELSE LET hits == {i \in 1 .. Len(s.regions) : s.regions[i].id = id}
       IN  [ok |-> TRUE,
            val |-> IF hits = {} THEN None
                    ELSE Some(s.regions[CHOOSE i \in hits :
                                          \A j \in hits : i <= j])]

\* RegionSet.__getitem__ with the index counted from 1.
getitemFromOne(s, index) ==
  IF index \in 1 .. Len(s.regions)
  THEN [ok |-> TRUE, val |-> Some(s.regions[index])]
  ELSE [ok |-> FALSE, val |-> None]

\* RegionSet.__getitem__(index) for an int index, counted from 0 as in the
\* source; out of range raises.
getitem(s, index) ==
  IF index \in 0 .. (Len(s.regions) - 1)
  THEN [ok |-> TRUE, val |-> Some(s.regions[index + 1])]
  ELSE [ok |-> FALSE, val |-> None]

\* RegionSet.__contains__(value), on the id that value stands for: value.id
\* for a Region, value itself for a str.
contains(s, id) ==
  LET found == get(s, id)
  IN  [ok |-> found.ok, val |-> found.ok /\ found.val # None]

\* RegionSet.add with the append placed before the assertions.
addAppendFirst(s, r) ==
  LET appended == [s EXCEPT !.regions = Append(@, r)]
  IN  IF RegionDimension(r) # s.dimension THEN [ok |-> FALSE, val |-> appended]
      ELSE IF s.bounds # None /\ ~Encloses(s.bounds[1], r)
      THEN [ok |-> FALSE, val |-> appended]
      ELSE [ok |-> TRUE, val |-> appended]

\* Mutant of add: a Region whose id a member has already is refused.
addUniqueId(s, r) ==
  IF RegionDimension(r) # s.dimension THEN [ok |-> FALSE, val |-> s]
  ELSE IF s.bounds # None /\ ~Encloses(s.bounds[1], r)
  THEN [ok |-> FALSE, val |-> s]
  ELSE IF \E i \in 1 .. Len(s.regions) : s.regions[i].id = r.id
  THEN [ok |-> FALSE, val |-> s]
  ELSE [ok |-> TRUE, val |-> [s EXCEPT !.regions = Append(@, r)]]

\* RegionSet.add(region): val is the set after the call, appended to only
\* when both assertions passed.
add(s, r) ==
  IF RegionDimension(r) # s.dimension THEN [ok |-> FALSE, val |-> s]
  ELSE IF s.bounds # None /\ ~Encloses(s.bounds[1], r)
  THEN [ok |-> FALSE, val |-> s]
  ELSE [ok |-> TRUE, val |-> [s EXCEPT !.regions = Append(@, r)]]

\* RegionSet.streamadd(regions): add each in turn; the first failure ends the
\* call and the Regions added before it stay.
RECURSIVE streamadd(_, _)
streamadd(s, rs) ==
  IF rs = <<>> THEN [ok |-> TRUE, val |-> s]
  ELSE LET out == add(s, Head(rs))
       IN  IF out.ok THEN streamadd(out.val, Tail(rs)) ELSE out

\* The other variables are those of the sweep; the dataset operations leave
\* them alone.
SweepUnchanged ==
  UNCHANGED <<regions, pc, task, dimension, timeline, pos, actives,
              published, log, overlaps, G, finalized, cliques, results, cycle,
              intersects, query, srq, srqrc, status>>

\* regionset = RegionSet('S', bounds, dimension).
NewCall(bounds, dim) ==
  LET out == RegionSet("S", bounds, dim)
  IN  /\ rset = None
      /\ rset' = IF out.ok THEN Some(out.val) ELSE None
      /\ call' = [op |-> "new", arg |-> <<bounds, dim>>]
      /\ ret' = [ok |-> out.ok, val |-> <<>>]
      /\ SweepUnchanged

\* regionset.add(r).
AddCall(r) ==
  /\ rset # None
  /\ Len(rset[1].regions) < MaxLen
  /\ LET out == add(rset[1], r)
     IN  /\ rset' = Some(out.val)
         /\ call' = [op |-> "add", arg |-> <<r>>]
         /\ ret' = [ok |-> out.ok, val |-> <<>>]
  /\ SweepUnchanged

\* regionset.streamadd([r1, r2]).
StreamAddCall(r1, r2) ==
  /\ rset # None
  /\ Len(rset[1].regions) + 2 <= MaxLen
  /\ LET out == streamadd(rset[1], <<r1, r2>>)
     IN  /\ rset' = Some(out.val)
         /\ call' = [op |-> "streamadd", arg |-> <<>>]
         /\ ret' = [ok |-> out.ok, val |-> <<>>]
  /\ SweepUnchanged

\* regionset[index], regionset.get(id) and id in regionset.
GetItemCall(index) ==
  /\ rset # None
  /\ LET out == getitem(rset[1], index)
     IN  /\ call' = [op |-> "getitem", arg |-> <<index>>]
         /\ ret' = [ok |-> out.ok, val |-> out.val]
  /\ UNCHANGED rset
  /\ SweepUnchanged

GetCall(id) ==
  /\ rset # None
  /\ LET out == get(rset[1], id)
         isin == contains(rset[1], id)
     IN  /\ call' = [op |-> "get", arg |-> <<id>>]
         /\ ret' = [ok |-> out.ok /\ isin.ok, val |-> <<out.val, isin.val>>]
  /\ UNCHANGED rset
  /\ SweepUnchanged

\* RegionSet.__copy__: a new RegionSet, constructed without an id, with the
\* same bounds, dimension and list of Regions.
copy(s) == [RegionSet("", s.bounds, s.dimension).val EXCEPT !.regions = s.regions]

\* The orders random.shuffle can leave a list of n items in.
Perms(n) ==
  {p \in [1 .. n -> 1 .. n] : \A i, j \in 1 .. n : p[i] = p[j] => i = j}

\* RegionSet.shuffle: the copy, its Regions reordered by p.
shuffle(s, p) ==
  [copy(s) EXCEPT !.regions = [i \in 1 .. Len(s.regions) |-> s.regions[p[i]]]]

\* Mutant of filter: the new set is given every Region that overlaps the
\* bounds.
filterOverlapping(s, b) ==
  IF RegionDimension(b) # s.dimension THEN [ok |-> FALSE, val |-> None]
  ELSE IF s.bounds # None /\ ~Encloses(s.bounds[1], b)
  THEN [ok |-> FALSE, val |-> None]
  ELSE LET out == streamadd(RegionSet("", Some(b), 1).val,
                            SelectSeq(s.regions,
                                      LAMBDA r : ~Encloses(b, r) =>
                                        \A k \in DOMAIN b.intervals :
                                          IntervalOverlaps(b.intervals[k],
                                                           r.intervals[k])))
       IN  [ok |-> out.ok, val |-> IF out.ok THEN Some(out.val) ELSE None]

\* RegionSet.filter(bounds): a new RegionSet bounded by bounds, holding the
\* Regions that bounds encloses.
filter(s, b) ==
  IF RegionDimension(b) # s.dimension THEN [ok |-> FALSE, val |-> None]
  ELSE IF s.bounds # None /\ ~Encloses(s.bounds[1], b)
  THEN [ok |-> FALSE, val |-> None]
  ELSE LET out == streamadd(RegionSet("", Some(b), 1).val,
                            SelectSeq(s.regions, LAMBDA r : Encloses(b, r)))
       IN  [ok |-> out.ok, val |-> IF out.ok THEN Some(out.val) ELSE None]

\* The Regions that the ids of a list stand for, in the order of the list.
RECURSIVE Lookup(_, _)
Lookup(s, ids) ==
  IF ids = <<>> THEN <<>>
  ELSE <<get(s, Head(ids)).val[1]>> \o Lookup(s, Tail(ids))

\* RegionSet.subset that skips the ids that are not in the set.
subsetKnown(s, ids) ==
  LET out == streamadd(RegionSet("", s.bounds, s.dimension).val,
                       Lookup(s, SelectSeq(ids, LAMBDA id :
                                                  contains(s, id).val)))
  IN  [ok |-> out.ok, val |-> IF out.ok THEN Some(out.val) ELSE None]

\* RegionSet.subset(subset), for a list of ids: every id must be in the set;
\* the Regions are added in the order of the list.
subset(s, ids) ==
  IF \E i \in 1 .. Len(ids) : ~contains(s, ids[i]).val
  THEN [ok |-> FALSE, val |-> None]
  ELSE LET out == streamadd(RegionSet("", s.bounds, s.dimension).val,
                            Lookup(s, ids))
       IN  [ok |-> out.ok, val |-> IF out.ok THEN Some(out.val) ELSE None]

\* merge's first loop: the bounds widened to enclose the bbox of every
\* non-empty other set that they do not enclose yet.
RECURSIVE MergeBounds(_, _)
MergeBounds(b, others) ==
  IF others = <<>> THEN b
  ELSE LET o == Head(others)
       IN  IF Len(o.regions) > 0 /\ ~Encloses(b, bbox(o)[1])
           THEN MergeBounds(RegionUnion(b, bbox(o)[1]), Tail(others))
           ELSE MergeBounds(b, Tail(others))

\* merge's second loop: the copies of the others' Regions, renamed.
RECURSIVE MergeRegions(_)
MergeRegions(others) ==
  IF others = <<>> THEN <<>>
  ELSE LET o == Head(others)
       IN  [i \in 1 .. Len(o.regions) |->
              [o.regions[i] EXCEPT !.id = o.id \o "_" \o o.regions[i].id]]
           \o MergeRegions(Tail(others))

\* RegionSet.merge without the widening of the bounds.
mergeKeepBounds(s, others) ==
  IF Len(others) = 0 \/ \E i \in 1 .. Len(others) :
                          others[i].dimension # s.dimension
  THEN [ok |-> FALSE, val |-> None]
  ELSE [ok |-> TRUE,
        val |-> Some([copy(s) EXCEPT !.regions = @ \o MergeRegions(others)])]

\* RegionSet.merge without its first loop: the bounds of the copy stay.
mergeNoWiden(s, others) ==
  IF Len(others) = 0 \/ \E i \in 1 .. Len(others) :
                          others[i].dimension # s.dimension
  THEN [ok |-> FALSE, val |-> None]
  ELSE LET out == streamadd(copy(s), MergeRegions(others))
       IN  [ok |-> out.ok, val |-> IF out.ok THEN Some(out.val) ELSE None]

\* RegionSet.merge(regionsets).
merge(s, others) ==
  IF Len(others) = 0 \/ \E i \in 1 .. Len(others) :
                          others[i].dimension # s.dimension
  THEN [ok |-> FALSE, val |-> None]
  ELSE LET merged == copy(s)
           widened == IF merged.bounds # None
                      THEN [merged EXCEPT
                              !.bounds = Some(MergeBounds(@[1], others))]
                      ELSE merged
           out == streamadd(widened, MergeRegions(others))
       IN  [ok |-> out.ok, val |-> IF out.ok THEN Some(out.val) ELSE None]

\* The RegionSets offered to merge: named "T", empty or with one Region.
OtherSets ==
  {streamadd(RegionSet("T", b, d).val, rs).val :
     b \in {None} \cup {Some(x) : x \in BoundsPool},
     d \in 1 .. Dim,
     rs \in {<<>>} \cup {<<r>> : r \in {x \in AddPool : x.id = ToBase26(1)}}}

\* Region.random_regions(n) on the bounds: n Regions that the bounds
\* enclose; which ones is the random source's choice.
RandomRegions(b, n) ==
  [1 .. n -> {r \in {NewRegion(Uuid4, ivs) :
                       ivs \in [DOMAIN b.intervals -> Intervals]} :
                Encloses(b, r)}]

\* RegionSet.from_random with one Region too few.
from_randomShort(n, b, rs) ==
  IF n <= 0 THEN [ok |-> FALSE, val |-> None]
  ELSE streamadd(RegionSet("", Some(b), 1).val,
                 [i \in 1 .. (n - 1) |-> [rs[i] EXCEPT !.id = ToBase26(i)]])

\* RegionSet.from_random(nregions, bounds), rs being what random_regions
\* returned: the Regions get the ids to_base26(1), to_base26(2), ...
from_random(n, b, rs) ==
  IF n <= 0 THEN [ok |-> FALSE, val |-> None]
  ELSE streamadd(RegionSet("", Some(b), 1).val,
                 [i \in 1 .. n |-> [rs[i] EXCEPT !.id = ToBase26(i)]])

\* Which list object a new RegionSet holds: "new" is a list no other set
\* holds, "self" the very list of the set it was made from.
\* RegionSet.__copy__ with `regions.regions = self.regions`.
copyListShared == "self"

\* RegionSet.__copy__: `regions.regions = self.regions.copy()`.
copyList == "new"

\* RegionSet.__init__: `self.regions = []`.
initList == "new"

\* The set s after the list of a set made from it came to hold rs:
\* s sees the appends and the reordering only when it holds that same list.
Aliased(s, list, rs) ==
  IF list = "self" THEN [s EXCEPT !.regions = rs] ELSE s

\* The sets given to merge, after the call: merge iterates over them and
\* renames a copy of each Region (`region = region.copy()`), never the
\* Region of the given set.
mergeArgs(others) == others

\* The result of a call that returns a new RegionSet: out is [ok, val], list
\* the list object the new set holds, args the argument sets after the call.
Derived(out, list, args) ==
  [ok |-> out.ok, val |-> out.val, list |-> list, args |-> args,
   added |-> FALSE]

\* The receiving set after a call that returned `out` on the list `list`.
Receiver(out, list) ==
  IF out.ok /\ out.val # None
  THEN Some(Aliased(rset[1], list, out.val[1].regions))
  ELSE rset

\* regionset.copy().
CopyCall ==
  /\ rset # None
  /\ call' = [op |-> "copy", arg |-> <<>>]
  /\ LET out == [ok |-> TRUE, val |-> Some(copy(rset[1]))]
     IN  /\ ret' = Derived(out, copyList, <<>>)
         /\ rset' = Receiver(out, copyList)
  /\ SweepUnchanged

\* regionset.shuffle(): the copy's list is shuffled in place.
ShuffleCall ==
  /\ rset # None
  /\ \E p \in Perms(Len(rset[1].regions)) :
       LET out == [ok |-> TRUE, val |-> Some(shuffle(rset[1], p))]
       IN  /\ ret' = Derived(out, copyList, <<>>)
           /\ rset' = Receiver(out, copyList)
  /\ call' = [op |-> "shuffle", arg |-> <<>>]
  /\ SweepUnchanged

\* regionset.filter(bounds).
FilterCall(b) ==
  /\ rset # None
  /\ call' = [op |-> "filter", arg |-> <<b>>]
  /\ LET out == filter(rset[1], b)
     IN  /\ ret' = Derived(out, initList, <<>>)
         /\ rset' = Receiver(out, initList)
  /\ SweepUnchanged

\* regionset.subset(ids).
SubsetCall(ids) ==
  /\ rset # None
  /\ call' = [op |-> "subset", arg |-> <<ids>>]
  /\ LET out == subset(rset[1], ids)
     IN  /\ ret' = Derived(out, initList, <<>>)
         /\ rset' = Receiver(out, initList)
  /\ SweepUnchanged

\* regionset.merge(others): the Regions are added to the copy's list.
MergeCall(others) ==
  /\ rset # None
  /\ call' = [op |-> "merge", arg |-> <<others>>]
  /\ LET out == merge(rset[1], others)
     IN  /\ ret' = Derived(out, copyList, mergeArgs(others))
         /\ rset' = Receiver(out, copyList)
  /\ SweepUnchanged

\* returned.add(r), on the RegionSet that the last call returned.
AddReturnedCall(r) ==
  /\ rset # None
  /\ call.op \in {"copy", "shuffle", "filter", "subset", "merge"}
  /\ ret.ok /\ ret.val # None /\ ~ret.added
  /\ LET out == add(ret.val[1], r)
     IN  /\ ret' = [ret EXCEPT !.ok = out.ok, !.val = Some(out.val),
                               !.added = TRUE]
         /\ rset' = Some(Aliased(rset[1], ret.list, out.val.regions))
  /\ UNCHANGED call
  /\ SweepUnchanged

\* regionset = RegionSet.from_random(n, bounds).
FromRandomCall(n, b) ==
  /\ rset = None
  /\ \E rs \in RandomRegions(b, n) :
       LET out == from_random(n, b, rs)
       IN  /\ rset' = IF out.ok THEN Some(out.val) ELSE None
           /\ ret' = [ok |-> out.ok, val |-> <<>>]
  /\ call' = [op |-> "from_random", arg |-> <<n, b>>]
  /\ SweepUnchanged

(***************************************************************************)
(* RegionSet: to_object and from_object.                                   *)
(*                                                                         *)
(* A RegionSet object is a record [id, dimension, length, bounds, regions] *)
(* whose first four fields are optional (None when the key is absent, or   *)
(* null for bounds).  A Region object lists the ids of the parents of a    *)
(* derived Region; in a loaded Region each parent is a reference           *)
(* [id, home]: the first Region with this id of the set being loaded       *)
(* ("set") or of the reference set ("refset").                             *)
(***************************************************************************)

\* Region.to_object: the parents are written as their ids.
RegionToObject(r) ==
  [id |-> r.id, intervals |-> r.intervals,
   intersect |-> IF r.intersect = None THEN None
                 ELSE Some([i \in 1 .. Len(r.intersect[1]) |->
                              r.intersect[1][i].id]),
   union |-> IF r.union = None THEN None
             ELSE Some([i \in 1 .. Len(r.union[1]) |-> r.union[1][i].id])]

\* Region.from_object: the parents are still ids.
RegionFromObject(o) ==
  [id |-> o.id, intervals |-> o.intervals, intersect |-> o.intersect,
   union |-> o.union]

\* RegionSet.to_object(object, compact=...): the compact form has the
\* length, the other form (asdict) has not.
to_object(s, compact) ==
  [id |-> Some(s.id),
   dimension |-> Some(s.dimension),
   length |-> IF compact THEN Some(Len(s.regions)) ELSE None,
   bounds |-> IF s.bounds = None THEN None
              ELSE Some(RegionToObject(s.bounds[1])),
   regions |-> [i \in 1 .. Len(s.regions) |-> RegionToObject(s.regions[i])]]

\* resolve_region with the reference set looked up first.
resolve_regionRefsetFirst(s, refset, r) ==
  IF refset # None /\ contains(refset[1], r).val
  THEN Some([id |-> r, home |-> "refset"])
  ELSE IF contains(s, r).val THEN Some([id |-> r, home |-> "set"])
  ELSE None

\* from_dict's resolve_region(r): the Region with id r of the set being
\* loaded, else that of refset, else None.
resolve_region(s, refset, r) ==
  IF contains(s, r).val THEN Some([id |-> r, home |-> "set"])
  ELSE IF refset # None /\ contains(refset[1], r).val
  THEN Some([id |-> r, home |-> "refset"])
  ELSE None

\* [resolve_region(r) for r in region[field]], field given as its value.
Resolved(s, refset, ids) ==
  [i \in 1 .. Len(ids) |-> resolve_region(s, refset, ids[i])]

\* assert all(resolved), for a field that may be absent.
AllResolved(s, refset, field) ==
  field = None \/ \A i \in 1 .. Len(field[1]) :
                    Resolved(s, refset, field[1])[i] # None

\* region[field] = resolved.
SetResolved(s, refset, field) ==
  IF field = None THEN None
  ELSE Some([i \in 1 .. Len(field[1]) |->
               Resolved(s, refset, field[1])[i][1]])

\* RegionSet.from_dict(object, id, refset).
from_dict(object, id, refset) ==
  LET failed == [ok |-> FALSE, val |-> None]
      n == Len(object.regions)
      rid == IF object.id # None THEN object.id[1] ELSE id
  IN  IF object.length # None
         /\ ~(0 < object.length[1] /\ n = object.length[1])
      THEN failed
      ELSE IF object.bounds = None /\ object.dimension = None THEN failed
      ELSE IF object.bounds = None /\ ~(0 < object.dimension[1]) THEN failed
      ELSE
        LET made == IF object.bounds # None
                    THEN RegionSet(rid,
                           Some(RegionFromObject(object.bounds[1])), 1)
                    ELSE RegionSet(rid, None, object.dimension[1])
            filled == streamadd(made.val,
                        [i \in 1 .. n |-> RegionFromObject(object.regions[i])])
            s == filled.val
        IN  IF ~filled.ok THEN failed
            ELSE IF refset # None /\ s.dimension # refset[1].dimension
            THEN failed
            ELSE IF \E i \in 1 .. n :
                      \/ ~AllResolved(s, refset, s.regions[i].intersect)
                      \/ ~AllResolved(s, refset, s.regions[i].union)
            THEN failed
            ELSE [ok |-> TRUE,
                  val |-> [s EXCEPT !.regions =
                     [i \in 1 .. n |->
                        [s.regions[i] EXCEPT
                           !.intersect = SetResolved(s, refset, @),
                           !.union = SetResolved(s, refset, @)]]]]

\* The one Interval of the Regions of the objects loaded.
LoadInterval == [lower |-> 0, upper |-> MaxCoord]

\* The ids a Region object may name as a parent: Ids, and one more.
RefIds == Ids \cup {ToBase26(MaxIds + 1)}

\* The lists of parent ids of a Region object: one id, or two.
RefLists ==
  {<<x>> : x \in RefIds}
    \cup {<<ToBase26(p[1]), ToBase26(p[2])>> :
            p \in {q \in (1 .. (MaxIds + 1)) \X (1 .. (MaxIds + 1)) :
                     q[1] < q[2]}}

\* The Region objects of the objects loaded: not derived, or with one of
\* the two fields.
ObjectRegions ==
  {[id |-> id, intervals |-> [k \in 0 .. 0 |-> LoadInterval],
    intersect |-> f[1], union |-> f[2]] :
     id \in Ids,
     f \in {<<None, None>>} \cup {<<Some(l), None>> : l \in RefLists}
                            \cup {<<None, Some(l)>> : l \in RefLists}}

\* The RegionSet objects loaded.
ObjectPool ==
  {[id |-> Some("S"), dimension |-> d, length |-> len, bounds |-> b,
    regions |-> rs] :
     d \in {None} \cup {Some(x) : x \in 0 .. 1},
     len \in {None} \cup {Some(x) : x \in 0 .. (MaxLen + 1)},
     b \in {None, Some(RegionToObject(
                    NewRegion(Uuid4, [k \in 0 .. 0 |-> LoadInterval])))},
     rs \in UNION {[1 .. n -> ObjectRegions] : n \in 0 .. MaxLen}}

\* The reference set given to the loads that are given one: it has a Region
\* with the first id of Ids and one with an id that is not in Ids.
TheRefSet ==
  streamadd(RegionSet("R", None, 1).val,
            <<NewRegion(ToBase26(1), [k \in 0 .. 0 |-> LoadInterval]),
              NewRegion(ToBase26(MaxIds + 1),
                        [k \in 0 .. 0 |-> LoadInterval])>>).val

\* regionset = RegionSet.from_object(object, refset=refset), as the first
\* call, on one of the objects of ObjectPool, with or without TheRefSet.
FromObjectCall ==
  /\ call.op = "none"
  /\ \E object \in ObjectPool, refset \in {None, Some(TheRefSet)} :
       LET out == from_dict(object, "", refset)
       IN  /\ rset' = IF out.ok THEN Some(out.val) ELSE None
           /\ call' = [op |-> "from_object", arg |-> <<object, refset>>]
           /\ ret' = [ok |-> out.ok, val |-> <<>>]
  /\ SweepUnchanged

\* object = RegionSet.to_object(regionset, compact=compact).
ToObjectCall(compact) ==
  /\ rset # None
  /\ call' = [op |-> "to_object", arg |-> <<compact>>]
  /\ ret' = [ok |-> TRUE, val |-> Some(to_object(rset[1], compact))]
  /\ UNCHANGED rset
  /\ SweepUnchanged

\* regionset = RegionSet.from_object(object), on the object that to_object
\* has just returned.
ReloadCall ==
  /\ call.op = "to_object"
  /\ LET out == from_dict(ret.val[1], "", None)
     IN  /\ rset' = IF out.ok THEN Some(out.val) ELSE rset
         /\ ret' = [ok |-> out.ok, val |-> <<>>]
  /\ call' = [op |-> "reload", arg |-> <<ret.val[1], call.arg[1]>>]
  /\ SweepUnchanged

(***************************************************************************)
(* Specifications.                                                         *)
(***************************************************************************)
Init ==
  /\ regions = <<>>
  /\ pc = "build"
  /\ task = "none"
  /\ dimension = 0
  /\ timeline = <<>>
  /\ pos = 1
  /\ actives = <<>>
  /\ published = <<>>
  /\ log = <<>>
  /\ overlaps = None
  /\ G = EmptyGraph
  /\ finalized = {}
  /\ cliques = <<>>
  /\ results = <<>>
  /\ cycle = [pass |-> 0, level |-> <<>>]
  /\ intersects = <<>>
  /\ query = 0
  /\ srq = <<>>
  /\ srqrc = <<>>
  /\ status = [nx |-> "none", rc |-> "none", srq |-> "none"]
  /\ rset = None
  /\ call = [op |-> "none", arg |-> <<>>]
  /\ ret = [ok |-> TRUE, val |-> <<>>]

\* The one-pass sweep with RegionSweepOverlaps subscribed.
Next ==
  \/ \E ivs \in IntervalTuples : Add(ivs)
  \/ \E k \in Dims : Evaluate(k)
  \/ OnBegin
  \/ OnEnd
  \/ OnDone

Spec == Init /\ [][Next]_vars

\* The construction of the intersection graph by the sweep.
NextGraph ==
  \/ \E ivs \in IntervalTuples : Add(ivs)
  \/ EvaluateCtor
  \/ OnBegin
  \/ OnEnd
  \/ OnNextDimension
  \/ \E e \in Pairs : OnFinalize(e)
  \/ CtorDone

SpecGraph == Init /\ [][NextGraph]_vars

\* A step of the builder's run: evaluate() loops over the timelines and the
\* candidates until Done, without waiting for anything.
BuilderStep ==
  \/ OnBegin
  \/ OnEnd
  \/ OnNextDimension
  \/ \E e \in Pairs : OnFinalize(e)
  \/ CtorDone

\* The Regions offered to the constructions that are run to their end: on
\* each dimension the whole range, its upper part, or the single point 0.
LiveIntervals ==
  {[lower |-> 0, upper |-> MaxCoord], [lower |-> 1, upper |-> MaxCoord],
   [lower |-> 0, upper |-> 0]}

LiveTuples == [Dims -> LiveIntervals]

NextGraphLive ==
  \/ \E ivs \in LiveTuples : Add(ivs)
  \/ EvaluateCtor
  \/ BuilderStep

\* The construction of the graph, with a run that is not left unfinished.
SpecGraphLive == Init /\ [][NextGraphLive]_vars /\ WF_vars(BuilderStep)

\* The Regions offered to the repeated runs: on each dimension the whole
\* range, its lower part, its upper part (the two touch), or the point 0.
RunsIntervals ==
  {[lower |-> 0, upper |-> MaxCoord], [lower |-> 0, upper |-> 1],
   [lower |-> 1, upper |-> MaxCoord], [lower |-> 0, upper |-> 0]}

RunsTuples == [Dims -> RunsIntervals]

\* RegionSweepOverlaps over up to MaxRuns runs of the sweep over one set.
NextRuns ==
  \/ \E ivs \in RunsTuples : Add(ivs)
  \/ \E k \in Dims : Evaluate(k)
  \/ OnBegin
  \/ OnEnd
  \/ OnDone
  \/ \E k \in Dims : EvaluateAgain(k)

SpecRuns == Init /\ [][NextRuns]_vars

\* The enumeration of all intersections over a graph filled by hand.
NextApi ==
  \/ \E ivs \in IntervalTuples : Add(ivs)
  \/ NewGraph
  \/ PutRegionCall
  \/ \E a, b \in 1 .. MaxN : PutOverlapCall(a, b)
  \/ EnumerateStart
  \/ ComputeNext
  \/ ComputeEnd

SpecApi == Init /\ [][NextApi]_vars

\* On one RegionSet: the graph's construction, the enumeration over it, the
\* same enumeration by the cyclic sweep, and the two single-region queries.
NextQuery ==
  \/ \E ivs \in IntervalTuples : Add(ivs)
  \/ EvaluateCtor
  \/ OnBegin
  \/ OnEnd
  \/ OnNextDimension
  \/ \E e \in Pairs : OnFinalize(e)
  \/ CtorDone
  \/ EnumerateStart
  \/ ComputeNext
  \/ ComputeEnd
  \/ EvaluateCycle
  \/ CyclePass
  \/ \E r \in RegionIds : SRQStart(r)
  \/ SRQNext
  \/ SRQEnd
  \/ EvaluateRestricted

SpecQuery == Init /\ [][NextQuery]_vars

\* The cyclic sweep alone, over a RegionSet.
NextCycle ==
  \/ \E ivs \in IntervalTuples : Add(ivs)
  \/ CycleEvaluate
  \/ CyclePass

SpecCycle == Init /\ [][NextCycle]_vars

\* The Regions offered to the cyclic sweep over MaxPassN Regions: on each
\* dimension the whole range, its upper part, or its lower part.
PassIntervals ==
  {[lower |-> 0, upper |-> MaxCoord], [lower |-> 1, upper |-> MaxCoord],
   [lower |-> 0, upper |-> 1]}

PassTuples == [Dims -> PassIntervals]

\* The cyclic sweep over a RegionSet of up to MaxPassN Regions.
NextPass ==
  \/ \E ivs \in PassTuples : AddInput(ivs)
  \/ CycleEvaluate
  \/ CyclePass

SpecPass == Init /\ [][NextPass]_vars

\* The dataset operations on one RegionSet.
NextSet ==
  \/ \E b \in {None} \cup {Some(x) : x \in BoundsPool}, d \in 0 .. Dim - 1 :
       NewCall(b, d)
  \/ \E r \in AddPool : AddCall(r)
  \/ \E r1, r2 \in AddPool : StreamAddCall(r1, r2)
  \/ \E i \in 0 .. MaxLen : GetItemCall(i)
  \/ \E id \in Ids \cup {""} : GetCall(id)
  \/ CopyCall
  \/ ShuffleCall
  \/ \E b \in FilterPool : FilterCall(b)
  \/ \E ids \in UNION {[1 .. n -> Ids] : n \in 0 .. MaxSubset} : SubsetCall(ids)
  \/ \E others \in {<<>>} \cup {<<o>> : o \in OtherSets} : MergeCall(others)
  \/ \E n \in 0 .. MaxLen, b \in BoundsPool : FromRandomCall(n, b)

SpecSet == Init /\ [][NextSet]_vars

\* The sets that filter is called on.
NextFilter ==
  \/ \E b \in {None} \cup {Some(x) : x \in BoundsPool}, d \in 0 .. Dim - 1 :
       NewCall(b, d)
  \/ \E r \in AddPool : AddCall(r)
  \/ \E b \in FilterPool : FilterCall(b)

SpecFilter == Init /\ [][NextFilter]_vars

\* The RegionSet that the sweeps and the queries work on, as the dataset
\* operations see it: the Region at position i has the id to_base26(i).
QueriedSet ==
  [RegionSet("S", None, Dim).val EXCEPT
     !.regions = [i \in 1 .. Len(regions) |->
                    NewRegion(ToBase26(regions[i].id), regions[i].intervals)]]

\* regions.subset(ids) on that RegionSet, after the single-region queries.
SubsetQuery(ids) ==
  /\ task = "srqcycle" /\ pc \in {"done", "failed"}
  /\ task' = "subset"
  /\ LET out == subset(QueriedSet, ids)
     IN  /\ ret' = Derived(out, initList, <<>>)
         /\ pc' = IF out.ok THEN "done" ELSE "failed"
  /\ call' = [op |-> "subset", arg |-> <<ids>>]
  /\ UNCHANGED rset
  /\ UNCHANGED qvars
  /\ UNCHANGED <<regions, dimension, timeline, pos, actives, published, log,
                 overlaps, G, finalized>>

\* The Regions offered to the queried set: they all overlap, and a Region
\* added later may begin before one added earlier.
LookupTuples == [Dims -> {iv \in Intervals : iv.upper = 2 /\ iv.lower < 2}]

\* The ids asked for: those of MaxN Regions and one more.
LookupIds == 1 .. (MaxN + 1)

\* The queries by Region id, on the RegionSet and on its graph, for ids that
\* are in the set and ids that are not.
NextLookup ==
  \/ \E ivs \in LookupTuples : Add(ivs)
  \/ EvaluateCtor
  \/ OnBegin
  \/ OnEnd
  \/ OnNextDimension
  \/ \E e \in Pairs : OnFinalize(e)
  \/ CtorDone
  \/ EnumerateStart
  \/ ComputeNext
  \/ ComputeEnd
  \/ EvaluateCycle
  \/ CyclePass
  \/ \E r \in LookupIds : SRQStart(r)
  \/ SRQNext
  \/ SRQEnd
  \/ EvaluateRestricted
  \/ \E ids \in UNION {[1 .. n -> {ToBase26(i) : i \in LookupIds}] :
                          n \in 0 .. MaxSubset} : SubsetQuery(ids)

SpecLookup == Init /\ [][NextLookup]_vars

\* hasattr(self, '_timeline'): the attribute is a field the record of the
\* set has only once it was set.
HasTimeline(s) == "_timeline" \in DOMAIN s

\* self._timeline = t.
SetTimeline(s, t) ==
  [x \in DOMAIN s \cup {"_timeline"} |->
     IF x = "_timeline" THEN t ELSE s[x]]

\* RegionTimeln(regions): a new timeline bound to the set; `object` tells
\* it from the timeline that the set may hold already.
RegionTimeln(s) ==
  [regions |-> s.id,
   object |-> IF HasTimeline(s) /\ s["_timeline"].object = 1 THEN 2 ELSE 1]

\* RegionSet.timeline that constructs a RegionTimeln on every access.
timelinePropertyUncached(s) ==
  [set |-> SetTimeline(s, RegionTimeln(s)), val |-> RegionTimeln(s)]

\* RegionSet.timeline, the property: val is the timeline returned, set the
\* RegionSet after the access.
timelineProperty(s) ==
  IF ~HasTimeline(s)
  THEN [set |-> SetTimeline(s, RegionTimeln(s)), val |-> RegionTimeln(s)]
  ELSE [set |-> s, val |-> s["_timeline"]]

\* One iteration of RegionTimeln.events(dimension) on the timeline of the
\* set: the events are sorted anew from the Regions the set holds.
TimelnEvents(s, k) == Events(s.regions, k)

\* regionset.timeline.
TimelineCall ==
  /\ rset # None
  /\ LET out == timelineProperty(rset[1])
     IN  /\ rset' = Some(out.set)
         /\ ret' = [ok |-> TRUE, val |-> <<out.val>>]
  /\ call' = [op |-> "timeline", arg |-> <<>>]
  /\ SweepUnchanged

\* list(regionset.timeline.events(k)), twice over.
EventsCall(k) ==
  /\ rset # None
  /\ k \in 0 .. (rset[1].dimension - 1)
  /\ LET out == timelineProperty(rset[1])
     IN  /\ rset' = Some(out.set)
         /\ ret' = [ok |-> TRUE,
                    val |-> <<TimelnEvents(out.set, k),
                              TimelnEvents(out.set, k)>>]
  /\ call' = [op |-> "events", arg |-> <<k>>]
  /\ SweepUnchanged

\* The Regions offered to the sets with a timeline: of every dimension, with
\* Intervals that touch.
TimelinePool ==
  UNION {{NewRegion(id, ivs) :
            id \in Ids,
            ivs \in [0 .. (d - 1) ->
                       {iv \in Intervals : iv.upper = iv.lower + 1}]} :
         d \in 1 .. Dim}

\* The timeline of a RegionSet.
NextTimeline ==
  \/ \E d \in 0 .. Dim : NewCall(None, d)
  \/ \E r \in TimelinePool : AddCall(r)
  \/ TimelineCall
  \/ \E k \in Dims : EventsCall(k)

SpecTimeline == Init /\ [][NextTimeline]_vars

\* Region.overlaps and Region.intersect on two Regions of one dimension.
Region_overlaps(a, b) ==
  \A k \in DOMAIN a.intervals : IntervalOverlaps(a.intervals[k], b.intervals[k])

Region_intersect(a, b) ==
  IF Region_overlaps(a, b)
  THEN Some([k \in DOMAIN a.intervals |->
               IntervalIntersect(a.intervals[k], b.intervals[k])[1]])
  ELSE None

\* Region.__eq__: two Region objects with the same content are equal, as
\* the comparison of a Region with its loaded copy expects.
Region_eq(a, b) == a = b

\* ordered_regions: the members, as positions in the set's list, in the
\* order of their Begin events on the dimension.
ordered_regions(s, k) ==
  LET begins == SelectSeq(TimelnEvents(s, k), LAMBDA e : e.kind = "Begin")
  IN  [i \in 1 .. Len(begins) |-> (begins[i].order + 1) \div 2]

\* (a, b) in overlaps: a tuple is in the list when it equals one of its
\* tuples, item by item.
InOverlaps(s, out, a, b) ==
  \E i \in 1 .. Len(out) :
    /\ Region_eq(s.regions[out[i][1]], s.regions[a])
    /\ Region_eq(s.regions[out[i][2]], s.regions[b])

\* The two nested loops of RegionSet.overlaps over ordered_regions, from
\* the i-th first and the j-th second: the pairs are pairs of positions.
RECURSIVE OverlapsLoop(_, _, _, _, _, _)
OverlapsLoop(s, k, ord, i, j, out) ==
  IF i > Len(ord) THEN out
  ELSE IF j > Len(ord) THEN OverlapsLoop(s, k, ord, i + 1, 1, out)
  ELSE LET first == ord[i]
           second == ord[j]
           skip == \/ first = second
                   \/ s.regions[first].intervals[k].lower >
                        s.regions[second].intervals[k].lower
                   \/ InOverlaps(s, out, second, first)
       IN  OverlapsLoop(s, k, ord, i, j + 1,
             IF ~skip /\ Region_overlaps(s.regions[first], s.regions[second])
             THEN Append(out, <<first, second>>)
             ELSE out)

\* RegionSet.overlaps(dimension).
RegionSet_overlaps(s, k) ==
  OverlapsLoop(s, k, ordered_regions(s, k), 1, 1, <<>>)

\* RegionSet.intersect(dimension): the intersect of each pair of overlaps.
RegionSet_intersect(s, k) ==
  LET pairs == RegionSet_overlaps(s, k)
  IN  [i \in 1 .. Len(pairs) |->
         Region_intersect(s.regions[pairs[i][1]], s.regions[pairs[i][2]])]

\* regionset.add(r) on a set that holds up to MaxMembers Regions.
AddMember(r) ==
  /\ rset # None
  /\ Len(rset[1].regions) < MaxMembers
  /\ LET out == add(rset[1], r)
     IN  /\ rset' = Some(out.val)
         /\ call' = [op |-> "add", arg |-> <<r>>]
         /\ ret' = [ok |-> out.ok, val |-> <<>>]
  /\ SweepUnchanged

\* regionset.overlaps(k) and regionset.intersect(k).
OverlapsCall(k) ==
  /\ rset # None
  /\ k \in 0 .. (rset[1].dimension - 1)
  /\ LET out == timelineProperty(rset[1])
     IN  /\ rset' = Some(out.set)
         /\ ret' = [ok |-> TRUE,
                    val |-> <<RegionSet_overlaps(out.set, k),
                              RegionSet_intersect(out.set, k)>>]
  /\ call' = [op |-> "overlaps", arg |-> <<k>>]
  /\ SweepUnchanged

\* The Regions offered to the naive overlaps: of every dimension, with
\* Intervals that overlap or touch.
NaivePool ==
  UNION {{NewRegion(id, ivs) :
            id \in Ids,
            ivs \in [0 .. (d - 1) ->
                       {[lower |-> 0, upper |-> 1],
                        [lower |-> 1, upper |-> MaxCoord],
                        [lower |-> 0, upper |-> MaxCoord]}]} :
         d \in 1 .. Dim}

\* The naive overlaps and intersects of a RegionSet.
NextNaive ==
  \/ \E d \in 1 .. Dim : NewCall(None, d)
  \/ \E r \in NaivePool : AddMember(r)
  \/ \E k \in Dims : OverlapsCall(k)

SpecNaive == Init /\ [][NextNaive]_vars

\* The Regions offered to the graphs filled by hand: they are all the same.
HandTuples == {[k \in Dims |-> [lower |-> 0, upper |-> MaxCoord]]}

\* The names given as json_graph.
Modes ==
  {"node_link", "adjacency", "cytoscape", "jit", "tree", "node-link", "gml"}

\* A graph built by the sweep, or filled by hand and then written as an
\* object and loaded from it.
NextHand ==
  \/ \E ivs \in HandTuples : Add(ivs)
  \/ EvaluateCtor
  \/ OnBegin
  \/ OnEnd
  \/ OnNextDimension
  \/ \E e \in Pairs : OnFinalize(e)
  \/ CtorDone
  \/ NewGraph
  \/ PutRegionCall
  \/ \E a, b \in 1 .. MaxN : PutTemporaryOverlapCall(a, b)
  \/ \E kwargs \in {None} \cup {Some(m) : m \in Modes} :
       GraphToObjectCall(kwargs)
  \/ \E name \in Modes : GraphFromObjectCall(name)

SpecHand == Init /\ [][NextHand]_vars

\* The Regions offered to the graphs whose edges are settled by hand: two
\* boxes that are disjoint in every dimension.
EdgeTuples ==
  {[k \in Dims |-> [lower |-> 0, upper |-> 0]],
   [k \in Dims |-> [lower |-> MaxCoord, upper |-> MaxCoord]]}

\* A graph filled by hand whose tentative edges are counted and finalized
\* through NxGraph's methods.
NextEdge ==
  \/ \E ivs \in EdgeTuples : Add(ivs)
  \/ NewGraph
  \/ PutRegionCall
  \/ \E a, b \in 1 .. MaxN : PutTemporaryOverlapCall(a, b)
  \/ \E a, b \in 1 .. MaxN : FinalizeOverlapCall(a, b)

SpecEdge == Init /\ [][NextEdge]_vars

\* RegionSet.__getitem__(index) for a str index: self.get(index).
getitemById(s, id) == get(s, id)

\* regionset[id], regionset.get(id) and `region in regionset` for a Region
\* object with this id that is not a member's object.
LookupCall(id) ==
  /\ rset # None
  /\ LET item == getitemById(rset[1], id)
         out == get(rset[1], id)
         isin == contains(rset[1], id)
     IN  /\ call' = [op |-> "lookup", arg |-> <<id>>]
         /\ ret' = [ok |-> item.ok /\ out.ok /\ isin.ok,
                    val |-> <<item.val, out.val, isin.val>>]
  /\ UNCHANGED rset
  /\ SweepUnchanged

\* graph.put_region(r) for any Region, whether or not its id is a node.
PutRegionOf(r) ==
  /\ task = "api" /\ pc = "put"
  /\ G' = PutRegion(G, r)
  /\ call' = [op |-> "put_region", arg |-> <<r>>]
  /\ ret' = [ok |-> TRUE, val |-> <<>>]
  /\ UNCHANGED rset
  /\ UNCHANGED qvars
  /\ UNCHANGED <<regions, pc, task, dimension, timeline, pos, actives,
                 published, log, overlaps, finalized>>

\* The Regions offered to the sets with repeated ids: one-dimensional, two
\* Intervals that touch.
RepeatPool ==
  {NewRegion(id, [k \in {0} |-> iv]) :
     id \in Ids,
     iv \in {[lower |-> 0, upper |-> 1], [lower |-> 1, upper |-> MaxCoord]}}

\* The bounds offered to those sets: none, or the lower Interval.
RepeatBounds ==
  {None, Some(NewRegion(Uuid4, [k \in {0} |-> [lower |-> 0, upper |-> 1]]))}

\* The Regions put into the graph: ids 1 .. MaxIds, each with either box.
NodePool ==
  {[id |-> i, intervals |-> ivs] : i \in 1 .. MaxIds, ivs \in EdgeTuples}

\* A RegionSet and a graph that are given Regions with ids they hold
\* already.
NextRepeat ==
  \/ \E b \in RepeatBounds : NewCall(b, 1)
  \/ \E r \in RepeatPool : AddMember(r)
  \/ \E id \in Ids : LookupCall(id)
  \/ NewGraph
  \/ \E r \in NodePool : PutRegionOf(r)

SpecRepeat == Init /\ [][NextRepeat]_vars

\* The ids offered to the derived sets: an id, and what merge makes of it
\* for a Region of the set "T".
DeriveIds == {ToBase26(1), "T_" \o ToBase26(1)}

\* The Regions offered to the derived sets: one-dimensional, from 0.
DerivePool ==
  {NewRegion(id, [k \in {0} |-> iv]) :
     id \in DeriveIds, iv \in {x \in Intervals : x.lower = 0}}

\* The RegionSets offered to merge, by id: empty or with one Region "A";
\* "T" also with bounds, and once of another dimension.
DeriveSets(id) ==
  {streamadd(RegionSet(id, b, 1).val, rs).val :
     b \in {None} \cup (IF id = "T"
                        THEN {Some(NewRegion(Uuid4,
                                [k \in {0} |-> [lower |-> 0,
                                                upper |-> MaxCoord]]))}
                        ELSE {}),
     rs \in {<<>>} \cup {<<r>> : r \in {x \in DerivePool : x.id = ToBase26(1)}}}

DeriveOthers ==
  {<<>>, <<RegionSet("T", None, 2).val>>}
    \cup {<<t>> : t \in DeriveSets("T")}
    \cup {<<t, u>> : t \in DeriveSets("T"), u \in DeriveSets("U")}

\* The operations that return a new RegionSet, and an add to that set.
NextDerive ==
  \/ \E b \in {None} \cup {Some(x) : x \in BoundsPool}, d \in 0 .. Dim - 1 :
       NewCall(b, d)
  \/ \E r \in DerivePool : AddCall(r)
  \/ CopyCall
  \/ ShuffleCall
  \/ \E b \in FilterPool : FilterCall(b)
  \/ \E ids \in UNION {[1 .. n -> DeriveIds] : n \in 0 .. MaxSubset} :
       SubsetCall(ids)
  \/ \E others \in DeriveOthers : MergeCall(others)
  \/ \E r \in DerivePool : AddReturnedCall(r)

SpecDerive == Init /\ [][NextDerive]_vars

\* Loading and serializing one RegionSet.
NextLoad ==
  \/ \E b \in {None} \cup {Some(x) : x \in BoundsPool}, d \in 0 .. Dim - 1 :
       NewCall(b, d)
  \/ FromObjectCall
  \/ \E compact \in BOOLEAN : ToObjectCall(compact)
  \/ ReloadCall

SpecLoad == Init /\ [][NextLoad]_vars

(***************************************************************************)
(* Properties of the one-pass sweep.                                       *)
(***************************************************************************)

\* The sweep run has ended: Done was broadcast, or the sweep aborted.
RunEnded == pc \in {"done", "failed"}

\* The intervals of Regions r and s on dimension k.
OnDim(r, k) == RegionOf(r)[k]

\* Overlap by more than a touching endpoint.
ProperOverlap(a, b) == a.lower < b.upper /\ b.lower < a.upper

\* One's upper equals the other's lower.
Touching(a, b) == a.upper = b.lower \/ b.upper = a.lower

\* The positions, in the publish order, of the Intersect events of {r, s}.
IntersectsOf(r, s) ==
  {i \in 1 .. Len(published) :
     /\ published[i].kind = "Intersect"
     /\ published[i].context \in {<<r, s>>, <<s, r>>}}

\* The payloads of the published Intersect events, in publish order.
IntersectPayloads ==
  LET evs == SelectSeq(published, LAMBDA e : e.kind = "Intersect") IN
  [i \in 1 .. Len(evs) |-> evs[i].context]

\* The position of r's Begin event in the timeline.
BeginPos(r) ==
  CHOOSE i \in 1 .. Len(timeline) :
    timeline[i].kind = "Begin" /\ timeline[i].context = r

\* The number of published events of the given kind with context <<r>>.
CountOf(kind, r) ==
  Cardinality({i \in 1 .. Len(published) :
                 published[i].kind = kind /\ published[i].context = <<r>>})

CountKind(kind) ==
  Cardinality({i \in 1 .. Len(published) : published[i].kind = kind})

\* C1: in one RegionSweep run on dimension k, every pair of distinct Regions
\* whose intervals overlap on k (read in its weakest form: by more than a
\* touching endpoint) has exactly one published Intersect, ordered
\* (latest-begin, earlier-begin), and RegionSweepOverlaps returns exactly the
\* published payloads in publish order.
C1_OneIntersectPerOverlap ==
  (task = "overlaps" /\ RunEnded) =>
    /\ \A r, s \in RegionIds :
         (r < s /\ ProperOverlap(OnDim(r, dimension), OnDim(s, dimension))) =>
           /\ Cardinality(IntersectsOf(r, s)) = 1
           /\ \A i \in IntersectsOf(r, s) :
                published[i].context =
                  IF BeginPos(r) > BeginPos(s) THEN <<r, s>> ELSE <<s, r>>
    /\ overlaps = Some(IntersectPayloads)

\* C2: every published Intersect(R, S) of a sweep on dimension k, and so
\* every pair RegionSweepOverlaps holds, is of two Regions whose k-th
\* intervals overlap.
C2_IntersectImpliesOverlap ==
  task = "overlaps" =>
    /\ \A i \in 1 .. Len(published) :
         published[i].kind = "Intersect" =>
           IntervalOverlaps(OnDim(published[i].context[1], dimension),
                            OnDim(published[i].context[2], dimension))
    /\ overlaps # None =>
         \A i \in 1 .. Len(overlaps[1]) :
           IntervalOverlaps(OnDim(overlaps[1][i][1], dimension),
                            OnDim(overlaps[1][i][2], dimension))

\* C2 witness: a completed sweep that published an Intersect.
C2_Witness ==
  /\ task = "overlaps" /\ pc = "done"
  /\ CountKind("Intersect") >= 1
  /\ overlaps # None /\ Len(overlaps[1]) >= 1

\* C3: in every sweep run over N Regions exactly N Begin and N End events
\* are emitted, each Region being the context of exactly one of each.
C3_BeginEndCounts ==
  (task = "overlaps" /\ RunEnded) =>
    /\ CountKind("Begin") = Len(regions)
    /\ CountKind("End") = Len(regions)
    /\ \A r \in RegionIds : CountOf("Begin", r) = 1 /\ CountOf("End", r) = 1

\* C4: with the default tie-break, two Regions whose intervals on the sweep
\* dimension merely touch have no Intersect published, and
\* RegionSweepOverlaps holds no pair of them.
C4_TouchingNoIntersect ==
  task = "overlaps" =>
    \A r, s \in RegionIds :
      (r # s /\ Touching(OnDim(r, dimension), OnDim(s, dimension))) =>
        /\ IntersectsOf(r, s) = {}
        /\ overlaps # None =>
             \A i \in 1 .. Len(overlaps[1]) :
               overlaps[1][i] \notin {<<r, s>>, <<s, r>>}

\* C4 witness: a completed sweep on dimension 1 over two Regions that touch
\* there, each of positive length, and that overlap on dimension 0.
C4_Witness ==
  /\ task = "overlaps" /\ pc = "done"
  /\ overlaps # None
  /\ \E r, s \in RegionIds :
       /\ r # s
       /\ OnDim(r, dimension).upper = OnDim(s, dimension).lower
       /\ OnDim(r, dimension).lower < OnDim(r, dimension).upper
       /\ OnDim(s, dimension).lower < OnDim(s, dimension).upper
       /\ dimension = 1
       /\ RegionOverlaps(RegionOf(r), RegionOf(s))

(***************************************************************************)
(* Properties of the graph construction.                                   *)
(***************************************************************************)

\* The construction of the graph is done.
GraphBuilt == task = "graph" /\ pc = "done"

\* Overlap by more than a touching endpoint in every dimension.
ProperRegionOverlap(a, b) == \A k \in Dims : ProperOverlap(a[k], b[k])

\* The state of the edge of the pair e: Absent, Tentative with its overlaps
\* counter, or Final with its intersect Region.
EdgeState(g, e) ==
  IF e \notin DOMAIN g.edges THEN <<"Absent", None, None>>
  ELSE IF g.edges[e].overlaps # None
       THEN <<"Tentative", g.edges[e].overlaps, None>>
       ELSE <<"Final", None, g.edges[e].intersect>>

EdgeMove(e) ==
  LET a == EdgeState(G, e)
      b == EdgeState(G', e) IN
  /\ e \in finalized => (a = b /\ a[1] \in {"Final", "Absent"})
  /\ \/ a = b
     \/ /\ a[1] = "Absent"
        /\ b = <<"Tentative", Some(1), None>>
     \/ /\ a[1] = "Tentative"
        /\ b = <<"Tentative", Some(a[2][1] + 1), None>>
     \/ /\ a[1] = "Tentative"
        /\ b[1] \in {"Final", "Absent"}
        /\ e \in finalized' \ finalized

\* C6: every edge moves only along Absent -> Tentative(k) -> Final or
\* Absent; once finalize_overlap has run on a pair its edge is Final or
\* Absent, and no later step of the construction changes it.
C6_EdgeLifecycle ==
  [][task' = "graph" => \A e \in Pairs : EdgeMove(e)]_vars

\* C6 witness: a built graph in which two pairs were finalized, one edge
\* made Final and one removed.
C6_Witness ==
  /\ GraphBuilt
  /\ \E e1, e2 \in finalized :
       /\ EdgeState(G, e1)[1] = "Final"
       /\ EdgeState(G, e2)[1] = "Absent"

(***************************************************************************)
(* Properties of the enumeration over the graph.                           *)
(***************************************************************************)

SetMax(S) == CHOOSE x \in S : \A y \in S : y <= x
SetMin(S) == CHOOSE x \in S : \A y \in S : x <= y

\* The cliques of more than one node of g, and those among them whose
\* Regions have a common intersection.
CliquesOf(g) == {c \in Range(EnumerateAllCliques(g)) : Len(c) > 1}

NonEmptyCliquesOf(g) ==
  {c \in CliquesOf(g) : FromIntersect(CliqueRegions(g, c)) # None}

\* The parents of the results yielded so far.
ResultParents(res) == {res[i].parents : i \in 1 .. Len(res)}

\* C7: when the graph has a clique of two or more nodes whose Regions have
\* no common intersection, EnumerateByNxGraph does not fail, and once its
\* iteration has ended it has yielded a result for exactly the cliques whose
\* intersection is not empty.
C7_SkipsEmptyCliques ==
  (task = "enumerate" /\ CliquesOf(G) # NonEmptyCliquesOf(G)) =>
    /\ pc # "failed"
    /\ pc = "done" => ResultParents(results) = NonEmptyCliquesOf(G)

\* A result (intersect, parents): at least two parents, and per dimension
\* the intersect is [max of the parents' lowers, min of the parents' uppers],
\* which is not empty.
IsIntersection(x) ==
  /\ Cardinality(Range(x.parents)) >= 2
  /\ Range(x.parents) \subseteq RegionIds
  /\ \A k \in Dims :
       /\ x.intersect[k].lower =
            SetMax({RegionOf(p)[k].lower : p \in Range(x.parents)})
       /\ x.intersect[k].upper =
            SetMin({RegionOf(p)[k].upper : p \in Range(x.parents)})
       /\ x.intersect[k].lower <= x.intersect[k].upper

\* C8: every result an enumeration has yielded has at least two parents and
\* a non-empty intersect that is Region.from_intersect of its parents.
C8_ResultsAreIntersections ==
  task = "enumerate" => \A i \in 1 .. Len(results) : IsIntersection(results[i])

\* C8 witness: an ended enumeration that yielded the intersection of three
\* Regions, which is none of the three.
C8_Witness ==
  /\ task = "enumerate" /\ pc = "done"
  /\ \E i \in 1 .. Len(results) :
       /\ Len(results[i].parents) = 3
       /\ \A p \in Range(results[i].parents) :
            results[i].intersect # RegionOf(p)

\* The results as a set of (parent set, intersection Region) tuples.
ResultSet(res) ==
  {[parents |-> Range(res[i].parents), intersect |-> res[i].intersect] :
     i \in 1 .. Len(res)}

\* C9: on one input RegionSet, when EnumerateByNxGraph and
\* EnumerateByRCSweep have both returned, their results are the same set of
\* (parent set, intersection Region) tuples.
C9_SameResults ==
  (task = "cycle" /\ pc = "done" /\ status.nx = "ok") =>
    ResultSet(results) = ResultSet(intersects)

\* The results of res that have the Region r among their parents.
WithParent(res, r) == {x \in ResultSet(res) : r \in x.parents}

\* C10: for a Region r of the input, SRQEnumByNxGraph returns exactly the
\* results of EnumerateByNxGraph that have r among their parents, and
\* SRQEnumByRCSweep exactly those of EnumerateByRCSweep, each result once;
\* every parent of a result overlaps r.
C10_SingleRegionQuery ==
  /\ (task = "srq" /\ pc = "done") =>
       /\ ResultSet(srq) = WithParent(results, query)
       /\ Cardinality(ResultSet(srq)) = Len(srq)
       /\ \A x \in ResultSet(srq) : \A p \in x.parents :
            RegionOverlaps(RegionOf(p), RegionOf(query))
  /\ (task = "srqcycle" /\ pc = "done" /\ status.rc = "ok") =>
       /\ ResultSet(srqrc) = WithParent(intersects, query)
       /\ Cardinality(ResultSet(srqrc)) = Len(srqrc)
       /\ \A x \in ResultSet(srqrc) : \A p \in x.parents :
            RegionOverlaps(RegionOf(p), RegionOf(query))

\* C10 witness: both single-region queries have returned results, while the
\* all-intersections enumerations also hold a result with a parent that
\* only touches r, so that it has no intersection with r in either.
C10_Witness ==
  /\ task = "srqcycle" /\ pc = "done"
  /\ status = [nx |-> "ok", rc |-> "ok", srq |-> "ok"]
  /\ srq # <<>> /\ srqrc # <<>>
  /\ \E y \in RegionIds :
       /\ \E k \in Dims : ~ProperOverlap(RegionOf(y)[k], RegionOf(query)[k])
       /\ \E x \in ResultSet(results) : y \in x.parents
       /\ \E x \in ResultSet(intersects) : y \in x.parents

(***************************************************************************)
(* Properties of the cyclic sweep.                                         *)
(***************************************************************************)

\* The cyclic sweep is running; it has stopped.
CycleRunning == task = "cycle" /\ pc = "pass"
CycleStopped == task = "cycle" /\ pc \in {"done", "failed"}

\* C11: the cyclic sweep terminates.  Every pass of a running sweep either
\* stops the run or produces a next set whose Regions all have one parent
\* more than those of its input set and no more than there are input
\* Regions: after at most N - 1 passes that produce a Region the next pass
\* produces none and stops the run.
C11_CycleTerminates ==
  [][CycleRunning =>
       \/ CycleStopped'
       \/ /\ CycleRunning'
          /\ cycle'.pass = cycle.pass + 1
          /\ cycle'.pass <= Len(regions) - 1
          /\ \A i \in 1 .. Len(cycle'.level) :
               Cardinality(cycle'.level[i].parents) = cycle'.pass + 1]_vars

\* C11 witness: a run over MaxN Regions that stopped at the fixpoint after
\* MaxN - 1 passes that each produced a Region.
C11_Witness ==
  /\ task = "cycle" /\ pc = "done"
  /\ Len(regions) = MaxN
  /\ cycle.pass = MaxN - 1

\* C12: the next set of a pass and the results of the cyclic sweep hold at
\* most one intersection per parent set.
C12_OnePerParentSet ==
  task = "cycle" =>
    /\ \A i, j \in 1 .. Len(cycle.level) :
         cycle.level[i].parents = cycle.level[j].parents => i = j
    /\ \A i, j \in 1 .. Len(intersects) :
         Range(intersects[i].parents) = Range(intersects[j].parents) => i = j

\* C12 witness: a run over three Regions whose three pairwise intersections
\* gave, in pass 1, three candidates of the same parent set: the last set
\* holds one Region, and there are four results.
C12_Witness ==
  /\ task = "cycle" /\ pc = "done"
  /\ cycle.pass = 2
  /\ Len(cycle.level) = 1
  /\ Len(intersects) = 4

(***************************************************************************)
(* Properties of the RegionSet operations.                                 *)
(***************************************************************************)

\* The operations that return a new RegionSet.
Derivations == {"copy", "shuffle", "filter", "subset", "merge"}

\* A new RegionSet was returned by the last call.
Returned == call.op \in Derivations /\ ret.ok

\* Every member has the set's dimension and is enclosed by its bounds.
MembersValid(s) ==
  \A i \in 1 .. Len(s.regions) :
    /\ RegionDimension(s.regions[i]) = s.dimension
    /\ s.bounds # None => Encloses(s.bounds[1], s.regions[i])

\* C13: the RegionSet keeps its member invariant after every add and
\* streamadd, successful or failed, and every set returned by copy, shuffle,
\* filter, subset, merge and from_random has it: each member has the set's
\* dimension and, when bounds is set, is enclosed by bounds.
C13_MemberInvariant ==
  /\ rset # None => MembersValid(rset[1])
  /\ Returned => MembersValid(ret.val[1])

\* C13 happens: merge returned a set whose bounds it had to widen, holding
\* the Regions of both sets.
C13_Witness ==
  /\ call.op = "merge" /\ ret.ok
  /\ rset[1].bounds # None
  /\ ret.val[1].bounds[1].intervals # rset[1].bounds[1].intervals
  /\ Len(ret.val[1].regions) = MaxLen + 1

\* RegionSet.add has to refuse the Region r on the set s.
Refused(s, r) ==
  \/ RegionDimension(r) # s.dimension
  \/ s.bounds # None /\ ~Encloses(s.bounds[1], r)

\* C14: add(r) fails when r.dimension differs from the set's dimension, and
\* when bounds is set and does not enclose r; r is then not appended, and
\* the set's members, their order and the bounds are what they were.
C14_AddFails ==
  [][(call'.op = "add" /\ Refused(rset[1], call'.arg[1]))
       => ~ret'.ok /\ rset' = rset]_vars

\* C14 happens: a Region of the set's dimension that the bounds do not
\* enclose was given to add on a set that has members.
C14_Witness ==
  /\ call.op = "add" /\ ~ret.ok
  /\ Len(rset[1].regions) > 0
  /\ RegionDimension(call.arg[1]) = rset[1].dimension
  /\ rset[1].bounds # None /\ ~Encloses(rset[1].bounds[1], call.arg[1])

\* The ids of the members of s are pairwise distinct.
DistinctIds(s) ==
  \A i, j \in 1 .. Len(s.regions) :
    s.regions[i].id = s.regions[j].id => i = j

\* The ids of the members of s.
MemberIds(s) == {s.regions[i].id : i \in 1 .. Len(s.regions)}

\* A successful add appends its Region: the members before it stay, in
\* their order, and the Region added is the last.
AddAppends ==
  (call'.op = "add" /\ ret'.ok)
    => rset'[1].regions = Append(rset[1].regions, call'.arg[1])

\* What regionset[i], regionset.get(id) and the membership test answered,
\* on a set the adds have filled with Regions of pairwise distinct ids.
LookupAnswers ==
  (rset # None /\ DistinctIds(rset[1])) =>
    LET s == rset[1]
        n == Len(s.regions)
    IN  /\ (call.op = "getitem" /\ call.arg[1] < n)
              => ret.ok /\ ret.val = Some(s.regions[call.arg[1] + 1])
        /\ (call.op = "get" /\ call.arg[1] \in MemberIds(s))
              => /\ ret.ok /\ ret.val[2]
                 /\ \E i \in 1 .. n : /\ s.regions[i].id = call.arg[1]
                                      /\ ret.val[1] = Some(s.regions[i])
        /\ (call.op = "get" /\ call.arg[1] \in Ids \ MemberIds(s))
              => ret.ok /\ ret.val = <<None, FALSE>>

\* C15: after n successful adds of Regions with pairwise distinct ids the
\* set has these n Regions in the order added, set[i] is the i-th of them,
\* set[r.id] is r and r.id is in the set for each of them; for an id never
\* added get returns None and the membership test is false.
C15_Lookup == [][AddAppends /\ LookupAnswers']_vars

\* C15 happens: on a set of MaxLen Regions with distinct ids, get returned
\* the second Region added.
C15_Witness ==
  /\ call.op = "get" /\ ret.ok
  /\ Len(rset[1].regions) = MaxLen /\ DistinctIds(rset[1])
  /\ ret.val[1] = Some(rset[1].regions[2])

\* The bounds b enclose every member of s and the minbounds of s.
BoundsHold(b, s) ==
  /\ \A i \in 1 .. Len(s.regions) : Encloses(b, s.regions[i])
  /\ minbounds(s) # None /\ Encloses(b, minbounds(s)[1])

\* C16: from_random(n, bounds) returns a set of exactly n members, each
\* enclosed by bounds, and bounds encloses the minbounds of the set; bounds
\* encloses the members and the minbounds of a bounded set filled by adds too.
C16_FromRandom ==
  /\ (call.op = "from_random" /\ call.arg[1] > 0) =>
        /\ ret.ok
        /\ Len(rset[1].regions) = call.arg[1]
        /\ rset[1].bounds = Some(call.arg[2])
        /\ BoundsHold(call.arg[2], rset[1])
  /\ (rset # None /\ rset[1].bounds # None /\ Len(rset[1].regions) > 0) =>
        BoundsHold(rset[1].bounds[1], rset[1])

\* C16 happens: from_random returned MaxLen Regions whose minbounds is
\* none of them.
C16_Witness ==
  /\ call.op = "from_random" /\ ret.ok
  /\ Len(rset[1].regions) = MaxLen
  /\ \A i \in 1 .. MaxLen :
       minbounds(rset[1])[1].intervals # rset[1].regions[i].intervals

\* The Regions x and y are members of s, x at a position before y.
Before(s, x, y) ==
  \E p, q \in 1 .. Len(s.regions) :
    p < q /\ s.regions[p] = x /\ s.regions[q] = y

\* C20: subset(ids) preserves relative order: in whatever order the known
\* ids are listed, two different members of the returned set are in the
\* order in which they are in the original set.
C20_SubsetKeepsOrder ==
  (call.op = "subset" /\ ret.ok) =>
    LET sub == ret.val[1].regions
    IN  \A i, j \in 1 .. Len(sub) :
          (i < j /\ sub[i] # sub[j]) => Before(rset[1], sub[i], sub[j])

(***************************************************************************)
(* Properties of to_object and from_object.                                *)
(***************************************************************************)

\* The object loads when its length field is left out.
LoadsWithoutLength(object, refset) ==
  from_dict([object EXCEPT !.length = None], "", refset).ok

\* C18: the load of an object that has a length field, and that loads
\* without it, succeeds when length is len(regions), whatever len(regions)
\* >= 0 is, and fails when length is not len(regions).
C18_LengthChecked ==
  (/\ call.op = "from_object"
   /\ call.arg[1].length # None
   /\ LoadsWithoutLength(call.arg[1], call.arg[2]))
    => (ret.ok <=> call.arg[1].length[1] = Len(call.arg[1].regions))

\* C17: from_object(to_object(s)) succeeds for every RegionSet s, whatever
\* its members, bounds and parent references are, and yields a set with
\* the same id, dimension, bounds, members in the same order and parent
\* references; its serialization is the object that s was serialized to.
C17_RoundTrip ==
  [][call'.op = "reload" =>
       /\ ret'.ok
       /\ rset' = rset
       /\ to_object(rset'[1], call'.arg[2]) = call'.arg[1]]_vars

\* The ids of the Regions of a RegionSet object.
ObjectIds(object) == {object.regions[i].id : i \in 1 .. Len(object.regions)}

\* The id x is that of a Region of the reference set given, if any.
InRefSet(refset, x) == refset # None /\ x \in MemberIds(refset[1])

\* The field of a loaded Region holds, for each id of the field of its
\* object, the Region with that id: of the set if it has one, else of the
\* reference set.
FieldResolved(object, refset, ids, refs) ==
  IF ids = None THEN refs = None
  ELSE /\ refs # None /\ Len(refs[1]) = Len(ids[1])
       /\ \A k \in 1 .. Len(ids[1]) :
            /\ refs[1][k].id = ids[1][k]
            /\ refs[1][k].home =
                 IF ids[1][k] \in ObjectIds(object) THEN "set" ELSE "refset"
            /\ ids[1][k] \in ObjectIds(object) \/ InRefSet(refset, ids[1][k])

\* Some parent id of the object is that of no Region, of the object or of
\* the reference set.
Unresolvable(object, refset) ==
  \E i \in 1 .. Len(object.regions) :
    \E f \in {object.regions[i].intersect, object.regions[i].union} :
      f # None /\ \E k \in 1 .. Len(f[1]) :
                    /\ f[1][k] \notin ObjectIds(object)
                    /\ ~InRefSet(refset, f[1][k])

\* C19: a load replaces every id of a Region's intersect and union lists by
\* the Region with that id, of the set being loaded first and of the
\* reference set otherwise; when an id is that of neither, the load fails
\* and returns no RegionSet.
C19_BackRefsResolved ==
  call.op = "from_object" =>
    LET object == call.arg[1]
        refset == call.arg[2]
    IN  /\ ret.ok =>
              \A i \in 1 .. Len(object.regions) :
                /\ FieldResolved(object, refset, object.regions[i].intersect,
                                 rset[1].regions[i].intersect)
                /\ FieldResolved(object, refset, object.regions[i].union,
                                 rset[1].regions[i].union)
        /\ Unresolvable(object, refset) => ~ret.ok /\ rset = None

\* C19 happens: a load resolved a list of two parents, the first to a
\* Region of the set that the reference set has too, the second to a
\* Region of the reference set.
C19_Witness ==
  /\ call.op = "from_object" /\ ret.ok
  /\ \E i \in 1 .. Len(rset[1].regions) :
       rset[1].regions[i].intersect =
         Some(<<[id |-> ToBase26(1), home |-> "set"],
                [id |-> ToBase26(MaxIds + 1), home |-> "refset"]>>)

(***************************************************************************)
(* Properties of the derived sets.                                         *)
(***************************************************************************)

\* The set that merge returned, before anything was added to it.
Merged == call.op = "merge" /\ ret.ok /\ ~ret.added

\* The ids within each source set are pairwise distinct, and so are the ids
\* of the source sets.
SourcesDistinct(s, others) ==
  /\ DistinctIds(s)
  /\ \A i \in 1 .. Len(others) :
       /\ DistinctIds(others[i])
       /\ others[i].id # s.id
       /\ \A j \in 1 .. Len(others) : others[i].id = others[j].id => i = j

\* The ids of the members of the given sets, each prefixed with its set's
\* id, in the order of the sets.
RECURSIVE PrefixedIds(_)
PrefixedIds(others) ==
  IF others = <<>> THEN <<>>
  ELSE [i \in 1 .. Len(Head(others).regions) |->
          Head(others).id \o "_" \o Head(others).regions[i].id]
       \o PrefixedIds(Tail(others))

\* C21: when the ids within each source set are pairwise distinct and the
\* source sets have pairwise distinct ids, the member ids of the merged set
\* are pairwise distinct, the members taken from a merged-in set having
\* their ids prefixed with that set's id.
C21_MergedIdsDistinct ==
  (Merged /\ SourcesDistinct(rset[1], call.arg[1]))
    => /\ DistinctIds(ret.val[1])
       /\ LET n == Len(rset[1].regions)
              ids == PrefixedIds(call.arg[1])
          IN  /\ Len(ret.val[1].regions) = n + Len(ids)
              /\ \A i \in 1 .. Len(ids) : ret.val[1].regions[n + i].id = ids[i]

\* merge was called on a set with bounds, with sets of its dimension.
MergeOnBounds ==
  /\ call.op = "merge" /\ ~ret.added
  /\ rset[1].bounds # None
  /\ Len(call.arg[1]) > 0
  /\ \A i \in 1 .. Len(call.arg[1]) :
       call.arg[1][i].dimension = rset[1].dimension

\* C22: merge on a set with bounds succeeds whatever the merged-in members
\* are, and the bounds of the merged set enclose the bounds of the receiving
\* set, the bbox of every non-empty merged-in set and every member.
C22_MergeWidens ==
  MergeOnBounds
    => /\ ret.ok
       /\ ret.val[1].bounds # None
       /\ Encloses(ret.val[1].bounds[1], rset[1].bounds[1])
       /\ \A i \in 1 .. Len(call.arg[1]) :
            Len(call.arg[1][i].regions) > 0
              => Encloses(ret.val[1].bounds[1], bbox(call.arg[1][i])[1])
       /\ \A i \in 1 .. Len(ret.val[1].regions) :
            Encloses(ret.val[1].bounds[1], ret.val[1].regions[i])

\* A merge that took in a Region outside the bounds of the receiving set.
C22_Witness ==
  /\ MergeOnBounds /\ ret.ok
  /\ \E i \in 1 .. Len(call.arg[1]) :
       /\ Len(call.arg[1][i].regions) > 0
       /\ ~Encloses(rset[1].bounds[1], call.arg[1][i].regions[1])

\* The argument sets of the last call, as they were given.
ArgumentSets == IF call.op = "merge" THEN call.arg[1] ELSE <<>>

\* C23: merge, filter, subset, shuffle and copy, and a later add to the set
\* they returned, leave the receiving set and the argument sets as they
\* were: the same members in the same order, the same ids, the same bounds.
C23_InputsUnchanged ==
  [][call'.op \in Derivations
       => /\ rset' = rset
          /\ ret'.args = ArgumentSets']_vars

\* A Region was added to the set returned by a merge of non-empty sets.
C23_Witness ==
  /\ call.op = "merge" /\ ret.ok /\ ret.added
  /\ Len(rset[1].regions) > 0
  /\ Len(ret.val[1].regions) > Len(rset[1].regions) + 1

(***************************************************************************)
(* Properties of the queries by Region id.                                 *)
(***************************************************************************)

\* The id asked of the single-region queries is not in the RegionSet.
UnknownQuery ==
  task \in {"srq", "srqcycle", "subset"} /\ query \notin RegionIds

\* The list given to subset has an id that is not in the RegionSet.
UnknownInSubset ==
  /\ task = "subset"
  /\ \E i \in 1 .. Len(call.arg[1]) :
       call.arg[1][i] \notin {ToBase26(r) : r \in RegionIds}

\* C24: a query that names an unknown Region id fails without a partial
\* result: subset returns no set, and SRQEnumByNxGraph and SRQEnumByRCSweep
\* fail before they yield a result.
C24_UnknownIdFatal ==
  /\ UnknownInSubset => (~ret.ok /\ ret.val = None /\ pc = "failed")
  /\ UnknownQuery
       => /\ srq = <<>>
          /\ task = "srq" => pc = "failed"
          /\ task # "srq" => (status.srq = "failed" /\ srqrc = <<>>)
          /\ task = "srqcycle" => pc = "failed"

\* On a RegionSet whose graph was built and has intersections, both
\* single-region queries and subset were asked for an id that is not there,
\* subset also for one that is.
C24_Witness ==
  /\ UnknownQuery /\ UnknownInSubset
  /\ status.nx = "ok" /\ results # <<>>
  /\ \E i \in 1 .. Len(call.arg[1]) :
       call.arg[1][i] \in {ToBase26(r) : r \in RegionIds}

(***************************************************************************)
(* Properties of the event bus.                                            *)
(***************************************************************************)

\* The events that the subscriber s was called with, in the order of the
\* calls.
Received(s) ==
  LET calls == SelectSeq(log, LAMBDA x : x.to = s /\ x.step = "call")
  IN  [i \in 1 .. Len(calls) |-> calls[i].event]

\* Init comes first and only once, Done last and only when the sweep is done.
InitFirstDoneLast(got) ==
  /\ got # <<>>
  /\ \A i \in 1 .. Len(got) :
       /\ got[i].kind = "Init" <=> i = 1
       /\ got[i].kind = "Done" => (i = Len(got) /\ pc = "done")
  /\ pc = "done" => got[Len(got)].kind = "Done"

\* The Begin and End events among got are those of the timeline up to the
\* sweep's position, in the timeline's order.
InTimelineOrder(got) ==
  LET marks == SelectSeq(got, LAMBDA e : e.kind \in {"Begin", "End"})
  IN  /\ Len(marks) = pos - 1
      /\ \A i \in 1 .. Len(marks) :
           marks[i] = Event(timeline[i].kind, <<timeline[i].context>>)

\* Every published event is handed to the subscribers one after the other
\* in subscription order, each call returning before the next call, and
\* before the next event is handed out.
InSubscriptionOrder ==
  LET n == Len(Subscribers)
  IN  /\ Len(log) = 2 * n * Len(published)
      /\ \A i \in 1 .. Len(published) : \A s \in 1 .. n :
           LET j == 2 * n * (i - 1) + 2 * (s - 1) + 1
           IN  /\ log[j] = [to |-> Subscribers[s], event |-> published[i],
                            step |-> "call"]
               /\ log[j + 1] = [log[j] EXCEPT !.step = "return"]

\* C25: in a run of evaluate() every subscriber receives Init before its
\* first data event and Done after its last, the data events arrive in the
\* order of the sorted timeline, and each event goes to the subscribers in
\* subscription order, each handler returning before the next is called.
\* RegionSweepOverlaps so holds the pairs of the Intersect events it got.
C25_DeliveryOrder ==
  task = "overlaps" =>
    /\ \A s \in Range(Subscribers) :
         InitFirstDoneLast(Received(s)) /\ InTimelineOrder(Received(s))
    /\ InSubscriptionOrder
    /\ overlaps # None
    /\ overlaps[1] =
         LET evs == SelectSeq(Received("overlaps"),
                              LAMBDA e : e.kind = "Intersect")
         IN  [i \in 1 .. Len(evs) |-> evs[i].context]

\* A finished run in which one step of the sweep published two events, a
\* Begin and an Intersect.
C25_Witness ==
  /\ task = "overlaps" /\ pc = "done"
  /\ \E i \in 1 .. Len(published) - 1 :
       published[i].kind = "Begin" /\ published[i + 1].kind = "Intersect"

(***************************************************************************)
(* Properties of the order of EnumerateByNxGraph's results.                *)
(***************************************************************************)

\* Lexicographic order of two lists of numbers of the same length.
LexLess(a, b) ==
  \E k \in 1 .. Len(a) :
    /\ a[k] < b[k]
    /\ \A j \in 1 .. (k - 1) : a[j] = b[j]

\* The results' numbers of parents never decrease, and are 2 at least.
OrderedBySize ==
  /\ \A i \in 1 .. Len(results) : Len(results[i].parents) >= 2
  /\ \A i \in 1 .. (Len(results) - 1) :
       Len(results[i].parents) <= Len(results[i + 1].parents)

\* Two results that follow each other with the same number of parents.
SameSize(i) ==
  /\ i \in 1 .. (Len(results) - 1)
  /\ Len(results[i].parents) = Len(results[i + 1].parents)

\* The position of the Region id in the node order of the graph.
NodeIndex(id) == CHOOSE i \in 1 .. Len(G.nodes) : G.nodes[i] = id

\* The parents of the i-th result as their positions in the node order.
ParentNodes(i) ==
  [k \in 1 .. Len(results[i].parents) |-> NodeIndex(results[i].parents[k])]

\* C26, as claimed: the results of EnumerateByNxGraph are ordered by
\* increasing number of parents, none with fewer than 2, and those with the
\* same number lexicographically by their sorted parent ids.
C26_OrderedBySizeThenIds ==
  /\ OrderedBySize
  /\ \A i \in 1 .. (Len(results) - 1) :
       SameSize(i) => LexLess(SortedIds(Range(results[i].parents)),
                              SortedIds(Range(results[i + 1].parents)))

\* C26, amended: the results of EnumerateByNxGraph are ordered by increasing
\* number of parents, none with fewer than 2, and those with the same number
\* lexicographically by their parents' positions in the node order of the
\* graph, in which order the parents of a result are listed.
C26_OrderedBySizeThenNodes ==
  /\ OrderedBySize
  /\ \A i \in 1 .. Len(results) :
       \A k \in 1 .. (Len(results[i].parents) - 1) :
         ParentNodes(i)[k] < ParentNodes(i)[k + 1]
  /\ \A i \in 1 .. (Len(results) - 1) :
       SameSize(i) => LexLess(ParentNodes(i), ParentNodes(i + 1))

\* The enumeration is done, and two results of the same size that follow
\* each other are not in the order of their sorted parent ids.
C26_Witness ==
  /\ task = "enumerate" /\ pc = "done"
  /\ \E i \in 1 .. (Len(results) - 1) :
       /\ SameSize(i)
       /\ ~LexLess(SortedIds(Range(results[i].parents)),
                   SortedIds(Range(results[i + 1].parents)))

(***************************************************************************)
(* Properties of the timeline of a RegionSet.                              *)
(***************************************************************************)

\* The number of the events evs of this kind, time and Region id.
EventCount(evs, kind, when, id) ==
  Cardinality({j \in 1 .. Len(evs) :
                 /\ evs[j].kind = kind
                 /\ evs[j].when = when
                 /\ evs[j].context = id})

\* The number of the Regions of s with this id that begin (kind Begin) or
\* end (kind End) at `when` in dimension k.
BoundCount(s, k, kind, when, id) ==
  Cardinality({i \in 1 .. Len(s.regions) :
                 /\ s.regions[i].id = id
                 /\ when = IF kind = "Begin"
                           THEN s.regions[i].intervals[k].lower
                           ELSE s.regions[i].intervals[k].upper})

\* evs are the 2N events of the N Regions of s in dimension k, sorted by
\* time, an End before a Begin of the same time.
TimelineOf(evs, s, k) ==
  /\ Len(evs) = 2 * Len(s.regions)
  /\ \A j \in 1 .. Len(evs) :
       /\ evs[j].kind \in {"Begin", "End"}
       /\ evs[j].dimension = k
       /\ EventCount(evs, evs[j].kind, evs[j].when, evs[j].context)
            = BoundCount(s, k, evs[j].kind, evs[j].when, evs[j].context)
  /\ \A j \in 1 .. (Len(evs) - 1) :
       /\ evs[j].when <= evs[j + 1].when
       /\ evs[j].when = evs[j + 1].when
            => ~(evs[j].kind = "Begin" /\ evs[j + 1].kind = "End")

C28_DefaultNodeLink ==
  (call.op = "NxGraph.to_object" /\ call.arg[1] = None)
    => /\ ret.ok
       /\ DOMAIN ret.val[1] = {"dimension", "json_graph", "graph"}
       /\ ret.val[1].json_graph = "node_link"
       /\ NxGraph_from_object(ret.val[1]).ok

\* The json_graph formats that the documentation allows.
AllowedFormats == {"node_link", "adjacency"}

\* C29: NxGraph.to_object and NxGraph.from_object accept the json_graph
\* formats node_link and adjacency and no other: for any other name they
\* raise the unsupported-format error and return no object and no graph.
C29_OnlyAllowedFormats ==
  /\ (call.op = "NxGraph.to_object" /\ call.arg[1] # None)
       => IF call.arg[1][1] \in AllowedFormats
          THEN ret.ok
          ELSE ~ret.ok /\ ret.error = "ValueError" /\ ret.val = None
  /\ call.op = "NxGraph.from_object"
       => IF call.arg[1].json_graph \in AllowedFormats
          THEN ret.ok <=> call.arg[1].graph.format = call.arg[1].json_graph
          ELSE ~ret.ok /\ ret.error = "ValueError" /\ ret.val = None

(***************************************************************************)
(* Properties of the tentative edges.                                      *)
(***************************************************************************)

\* The overlaps counter of every tentative edge is between 1 and d.
CountersInRange ==
  \A e \in TentativeEdges(G) :
    G.edges[e].overlaps[1] \in 1 .. Dim

\* What a call of put_temporary_overlap on the pair did: an absent edge is
\* created with overlaps = 1, a tentative edge below d gets one more, and at
\* d the call fails and the graph stays as it was.
TemporaryOverlapStep(pair) ==
  LET e == EdgeKey(pair)
  IN  /\ ~HasEdge(G, pair)
           => /\ ret'.ok
              /\ G'.edges = Put(G.edges, e,
                                [overlaps |-> Some(1), intersect |-> None])
      /\ (e \in TentativeEdges(G) /\ G.edges[e].overlaps[1] < Dim)
           => /\ ret'.ok
              /\ G'.edges = Put(G.edges, e,
                                [G.edges[e] EXCEPT
                                   !.overlaps = Some(@[1] + 1)])
      /\ (e \in TentativeEdges(G) /\ G.edges[e].overlaps[1] = Dim)
           => ~ret'.ok /\ G' = G

\* A step of put_temporary_overlap on a graph filled by hand: it changes
\* the edges or it fails.
PutTemporaryStep ==
  /\ task = "api" /\ pc = "put"
  /\ call'.op = "put_temporary_overlap"
  /\ G'.edges # G.edges \/ pc' = "failed"

\* C30: during the construction of a graph the overlaps counter of every
\* tentative edge is between 1 and d; put_temporary_overlap creates an
\* absent edge with overlaps = 1, increments a tentative edge by 1, and
\* fails at overlaps = d, leaving the graph unchanged.
C30_OverlapsCounter ==
  [][/\ CountersInRange'
     /\ PutTemporaryStep => TemporaryOverlapStep(call'.arg)]_vars

\* put_temporary_overlap was called on an edge whose counter was d already.
C30_Witness ==
  /\ call.op = "put_temporary_overlap" /\ ~ret.ok
  /\ EdgeKey(call.arg) \in TentativeEdges(G)
  /\ G.edges[EdgeKey(call.arg)].overlaps = Some(Dim)

(***************************************************************************)
(* Properties of finalize_overlap.                                         *)
(***************************************************************************)

\* A step of finalize_overlap: by the builder on a Finalize event, or by
\* hand.
FinalizeStep ==
  \/ task = "graph" /\ finalized' # finalized
  \/ /\ task = "api" /\ pc = "put"
     /\ call'.op = "finalize_overlap"
     /\ finalized' # finalized \/ G' # G \/ pc' = "failed"

\* The pair that step finalized.
FinalizedPair ==
  IF task = "graph" THEN PairOf(CHOOSE e \in finalized' \ finalized : TRUE)
  ELSE call'.arg

\* The call raised.
FinalizeFailed == pc' = "failed"

\* What finalize_overlap on the pair did, as C31 states it.
FinalizeOverlapStep(pair) ==
  LET e == EdgeKey(pair)
  IN  /\ (e \in TentativeEdges(G) /\ G.edges[e].overlaps[1] = Dim)
           => /\ ~FinalizeFailed
              /\ G'.edges =
                   Put(G.edges, e,
                       [overlaps |-> None,
                        intersect |-> RegionIntersect(G.region[pair[1]],
                                                      G.region[pair[2]])])
              /\ G'.nodes = G.nodes /\ G'.region = G.region
      /\ (e \in TentativeEdges(G) /\ G.edges[e].overlaps[1] < Dim)
           => /\ ~FinalizeFailed
              /\ G'.edges = Drop(G.edges, e)
              /\ G'.nodes = G.nodes /\ G'.region = G.region
      /\ e \notin TentativeEdges(G) => FinalizeFailed /\ G' = G

\* C31: finalize_overlap on a tentative edge makes it Final at overlaps = d,
\* with intersect = R.intersect(S) and no overlaps, and removes it below d,
\* leaving all nodes and all other edges as they were; on a pair without a
\* tentative edge it fails and the graph is unchanged.
C31_FinalizeOverlap ==
  [][FinalizeStep => FinalizeOverlapStep(FinalizedPair)]_vars

(***************************************************************************)
(* Properties of the resolution of the tentative edges.                    *)
(***************************************************************************)

\* The pairs put_temporary_overlap was called on: those of the Intersect
\* events published to the builder.
Candidates ==
  {EdgeKey(published[i].context) :
     i \in {j \in 1 .. Len(published) : published[j].kind = "Intersect"}}

\* How often Finalize was published for the pair e.
FinalizeCount(e) ==
  Cardinality({i \in 1 .. Len(published) :
                 /\ published[i].kind = "Finalize"
                 /\ EdgeKey(published[i].context) = e})

\* No pair is finalized twice, and none before all dimensions are processed.
FinalizedOnce ==
  task = "graph" =>
    \A e \in Pairs :
      /\ FinalizeCount(e) <= 1
      /\ FinalizeCount(e) = 1 =>
           /\ e \in Candidates
           /\ dimension = Dim - 1 /\ pos > Len(timeline)

\* Once construction is done every candidate was finalized, no edge has an
\* overlaps counter and every edge has an intersect Region.
ResolvedWhenDone ==
  GraphBuilt =>
    /\ \A e \in Candidates : FinalizeCount(e) = 1
    /\ TentativeEdges(G) = {}
    /\ DOMAIN G.edges = FinalEdges(G)

\* C32: every tentative edge is eventually resolved, exactly once: each pair
\* that received a put_temporary_overlap is finalized once, after all
\* dimensions are processed, and when construction is done no edge carries
\* an overlaps counter and every remaining edge carries an intersect Region.
C32_EdgesResolved ==
  /\ [](FinalizedOnce /\ ResolvedWhenDone)
  /\ \A e \in Pairs :
       (task = "graph" /\ e \in TentativeEdges(G))
         ~> (GraphBuilt /\ FinalizeCount(e) = 1)

(***************************************************************************)
(* Properties of the pairs of the overlaps counter.                        *)
(***************************************************************************)

\* How many Intersect events were published for the pair in the given
\* order.
IntersectCount(pair) ==
  Cardinality({i \in 1 .. Len(published) :
                 /\ published[i].kind = "Intersect"
                 /\ published[i].context = pair})

\* The pairs an Intersect event was published for, in either order.
Counted ==
  {p \in (1 .. MaxN) \X (1 .. MaxN) :
     p[1] < p[2] /\ IntersectCount(p) + IntersectCount(<<p[2], p[1]>>) > 0}

\* C33: the overlaps counter is kept per unordered pair.  While the builder
\* counts, the pairs (R, S) and (S, R) name one edge, whose overlaps is the
\* number of put_temporary_overlap calls on the pair in either order, and
\* the graph has one edge per counted pair.
C33_CounterPerUnorderedPair ==
  (task = "graph" /\ pc = "sweep" /\ finalized = {}) =>
    /\ \A p \in Counted :
         LET q == <<p[2], p[1]>> IN
         /\ HasEdge(G, p) /\ HasEdge(G, q)
         /\ G.edges[EdgeKey(p)].overlaps =
              Some(IntersectCount(p) + IntersectCount(q))
         /\ G.edges[EdgeKey(q)] = G.edges[EdgeKey(p)]
    /\ Cardinality(DOMAIN G.edges) = Cardinality(Counted)

\* C33 witness: put_temporary_overlap was called once on (R, S) and once on
\* (S, R), and the graph has the one edge, with overlaps = 2.
C33_Witness ==
  /\ task = "graph" /\ pc = "sweep" /\ finalized = {}
  /\ \E p \in Counted :
       /\ IntersectCount(p) = 1 /\ IntersectCount(<<p[2], p[1]>>) = 1
       /\ G.edges[EdgeKey(p)].overlaps = Some(2)
       /\ Cardinality(DOMAIN G.edges) = 1

(***************************************************************************)
(* Properties of the sweep's active set.                                   *)
(***************************************************************************)

\* The sweep is about to process an End event.
AtEnd == pc = "sweep" /\ pos <= Len(timeline) /\ timeline[pos].kind = "End"

\* C34: the active set never underflows.  Whenever End(R) is processed R is
\* in the active set, its Begin on the sweep dimension having been
\* processed before, and the active set is empty when Done is broadcast.
C34_NoUnderflow ==
  /\ AtEnd =>
       /\ timeline[pos].context \in Range(actives)
       /\ \E i \in 1 .. (pos - 1) :
            /\ timeline[i].kind = "Begin"
            /\ timeline[i].context = timeline[pos].context
  /\ (task = "overlaps" /\ pc = "done") => actives = <<>>

(***************************************************************************)
(* Properties of the sets of the cyclic sweep.                             *)
(***************************************************************************)

\* The intersection of the input Regions with the given ids.
InputIntersect(ids) ==
  FromIntersect([j \in 1 .. Cardinality(ids) |->
                   RegionOf(SortedIds(ids)[j])])

\* A pass that added Regions: the step to the next set.
PassAdds == task = "cycle" /\ pc = "pass" /\ cycle'.pass = cycle.pass + 1

\* The candidates of the pass over the set: the pairs of its Regions that
\* have a non-empty intersection.
PassCandidates(level) ==
  {p \in (1 .. Len(level)) \X (1 .. Len(level)) :
     /\ p[1] # p[2]
     /\ RegionIntersect(level[p[1]].intervals, level[p[2]].intervals) # None}

\* C35: in pass i of the cyclic sweep every Region added to the next set is
\* a non-empty intersection whose parent set is exactly i + 2 distinct
\* Regions of the input set, of which it is the intersection; a candidate
\* whose parent set has another size is not added.
C35_NextSetParents ==
  [][PassAdds =>
       /\ \A j \in 1 .. Len(cycle'.level) :
            LET x == cycle'.level[j] IN
            /\ x.parents \subseteq RegionIds
            /\ Cardinality(x.parents) = cycle.pass + 2
            /\ InputIntersect(x.parents) = Some(x.intervals)
       /\ \A p \in PassCandidates(cycle.level) :
            LET parents == cycle.level[p[1]].parents \cup
                           cycle.level[p[2]].parents IN
            Cardinality(parents) # cycle.pass + 2 =>
              \A j \in 1 .. Len(cycle'.level) :
                cycle'.level[j].parents # parents]_vars

\* C35 witness: pass 1 over four Regions had a candidate of two Regions of
\* S_1 with four parents between them, overlapping on the sweep dimension,
\* and S_2 was built without it.
C35_Witness ==
  /\ task = "cycle" /\ cycle.pass = 2
  /\ Len(regions) = 4
  /\ \E x, y \in Range(intersects) :
       /\ Len(x.parents) = 2 /\ Len(y.parents) = 2
       /\ Range(x.parents) \cap Range(y.parents) = {}
       /\ RegionIntersect(x.intersect, y.intersect) # None
       /\ ProperOverlap(x.intersect[0], y.intersect[0])
  /\ \A j \in 1 .. Len(cycle.level) :
       Cardinality(cycle.level[j].parents) = 3

(***************************************************************************)
(* Properties of RegionSweepOverlaps over several runs.                    *)
(***************************************************************************)

\* The position in published of the most recent Init.
LastInit ==
  CHOOSE i \in 1 .. Len(published) :
    /\ published[i].kind = "Init"
    /\ \A j \in (i + 1) .. Len(published) : published[j].kind # "Init"

\* The pairs of the Intersect events published since the most recent Init,
\* in order.
PairsSinceInit ==
  LET since == SubSeq(published, LastInit + 1, Len(published))
      found == SelectSeq(since, LAMBDA e : e.kind = "Intersect") IN
  [i \in 1 .. Len(found) |-> found[i].context]

\* C36: RegionSweepOverlaps with no data events and across runs.  Right
\* after Init its result is the empty list; a run that published no
\* Intersect ends with the empty list, not with None; and the result holds
\* the pairs published since the most recent Init and no pair of an
\* earlier run.
C36_ResultsPerRun ==
  (task = "overlaps" /\ Runs >= 1) =>
    /\ overlaps # None
    /\ LastInit = Len(published) => overlaps = Some(<<>>)
    /\ (pc = "done" /\ PairsSinceInit = <<>>) => overlaps = Some(<<>>)
    /\ overlaps = Some(PairsSinceInit)

\* C36 witness: a second run that ended without an Intersect, after a first
\* run that published one.
C36_Witness ==
  /\ task = "overlaps" /\ pc = "done" /\ Runs = 2
  /\ PairsSinceInit = <<>> /\ overlaps = Some(<<>>)
  /\ \E i \in 1 .. LastInit : published[i].kind = "Intersect"

(***************************************************************************)
(* Properties of the naive overlaps of a RegionSet.                        *)
(***************************************************************************)

\* How often the list of pairs has the two members, in either order.
PairCount(pairs, i, j) ==
  Cardinality({n \in 1 .. Len(pairs) : {pairs[n][1], pairs[n][2]} = {i, j}})

\* C37: RegionSet.overlaps(k) returns every unordered pair of distinct
\* members that overlap exactly once, as (first, second) with
\* first.lower[k] <= second.lower[k], also when members share their lower
\* bound on k; RegionSet.intersect(k) returns, position by position, the
\* intersection of each of those pairs.
C37_NaiveOverlaps ==
  (call.op = "overlaps" /\ rset # None) =>
    LET s == rset[1]
        k == call.arg[1]
        pairs == ret.val[1]
        regs == ret.val[2]
    IN  /\ \A i, j \in 1 .. Len(s.regions) :
             i < j =>
               PairCount(pairs, i, j) =
                 IF Region_overlaps(s.regions[i], s.regions[j]) THEN 1 ELSE 0
        /\ \A n \in 1 .. Len(pairs) :
             /\ pairs[n][1] # pairs[n][2]
             /\ s.regions[pairs[n][1]].intervals[k].lower <=
                  s.regions[pairs[n][2]].intervals[k].lower
        /\ Len(regs) = Len(pairs)
        /\ \A n \in 1 .. Len(pairs) :
             regs[n] = Region_intersect(s.regions[pairs[n][1]],
                                        s.regions[pairs[n][2]])

(***************************************************************************)
(* Properties of filter.                                                   *)
(***************************************************************************)

\* The positions of the members of s that b encloses.
EnclosedAt(s, b) == {i \in 1 .. Len(s.regions) : Encloses(b, s.regions[i])}

\* The n-th of these positions, in the order of the set's list.
NthEnclosed(s, b, n) ==
  CHOOSE i \in EnclosedAt(s, b) :
    Cardinality({j \in EnclosedAt(s, b) : j < i}) = n - 1

\* filter(b) must fail on s: b is of another dimension, or s has bounds
\* that do not enclose b.
FilterRefused(s, b) ==
  \/ RegionDimension(b) # s.dimension
  \/ s.bounds # None /\ ~Encloses(s.bounds[1], b)

\* C38: filter(b) returns a set whose bounds is b and whose members are
\* exactly the members of the original set that b encloses, in their
\* original order; it fails and returns no set when b is of another
\* dimension than the set or the set has bounds that do not enclose b.
C38_Filter ==
  (call.op = "filter" /\ rset # None) =>
    LET s == rset[1]
        b == call.arg[1]
    IN  IF FilterRefused(s, b)
        THEN ~ret.ok /\ ret.val = None
        ELSE /\ ret.ok /\ ret.val # None
             /\ ret.val[1].bounds = Some(b)
             /\ Len(ret.val[1].regions) = Cardinality(EnclosedAt(s, b))
             /\ \A n \in 1 .. Len(ret.val[1].regions) :
                  ret.val[1].regions[n] = s.regions[NthEnclosed(s, b, n)]

\* C38 witness: a bounded set of two members filtered to its second member.
C38_Witness ==
  /\ call.op = "filter" /\ rset # None /\ ret.ok
  /\ rset[1].bounds # None
  /\ Len(rset[1].regions) = 2
  /\ ret.val[1].regions = <<rset[1].regions[2]>>
  /\ rset[1].regions[1] # rset[1].regions[2]

(***************************************************************************)
(* Properties of repeated ids.                                             *)
(***************************************************************************)

\* A step of add, and of put_region.
AddStep == call'.op = "add" /\ <<rset, call, ret>>' # <<rset, call, ret>>
PutRegionStep ==
  task = "api" /\ call'.op = "put_region" /\ (call' # call \/ G' # G)

\* An add of a Region whose id a member has is accepted like any other: the
\* Region is appended unless its dimension or the bounds refuse it.
RepeatedIdAdded ==
  LET s == rset[1]
      r == call'.arg[1]
  IN  (\E i \in 1 .. Len(s.regions) : s.regions[i].id = r.id)
        => IF Refused(s, r)
           THEN ~ret'.ok /\ rset' = rset
           ELSE ret'.ok /\ rset'[1].regions = Append(s.regions, r)

\* set[id] and get(id) return the earliest-added member with the id, and a
\* Region with the id of a member is reported as contained.
EarliestFound ==
  (call.op = "lookup" /\ rset # None) =>
    LET s == rset[1]
        id == call.arg[1]
        at == {i \in 1 .. Len(s.regions) : s.regions[i].id = id}
    IN  /\ ret.ok
        /\ at = {} => ret.val = <<None, None, FALSE>>
        /\ at # {} =>
             LET first == s.regions[CHOOSE i \in at : \A j \in at : i <= j]
             IN  ret.val = <<Some(first), Some(first), TRUE>>

\* put_region of a Region whose id is a node replaces the node's Region and
\* adds no node; of another id it adds the node.
NodeReplaced ==
  LET r == call'.arg[1] IN
  /\ G'.region[r.id] = r.intervals
  /\ \A v \in Range(G.nodes) \ {r.id} : G'.region[v] = G.region[v]
  /\ G'.edges = G.edges
  /\ G'.nodes = IF r.id \in Range(G.nodes) THEN G.nodes
                ELSE Append(G.nodes, r.id)

\* The graph has one node for each id.
OneNodePerId ==
  /\ Cardinality(Range(G.nodes)) = Len(G.nodes)
  /\ DOMAIN G.region = Range(G.nodes)

\* C39: RegionSet.add does not enforce unique ids.  Adding a Region whose
\* id a member has succeeds; set[id] and get(id) then return the
\* earliest-added member with that id, and a distinct Region with that id
\* is reported as contained.  In the graph put_region of a Region whose id
\* is a node replaces that node's Region and adds no node, so the graph has
\* as many nodes as distinct ids were put.
C39_RepeatedIds ==
  [][/\ AddStep => RepeatedIdAdded
     /\ EarliestFound'
     /\ PutRegionStep => NodeReplaced
     /\ OneNodePerId']_vars

\* C39 witness: the set holds two different Regions with one id and the
\* lookup returned the first; the graph has one node, whose Region was
\* replaced by the last put.
C39_Witness ==
  /\ call.op = "lookup" /\ rset # None /\ ret.ok
  /\ Len(rset[1].regions) >= 2
  /\ rset[1].regions[1].id = rset[1].regions[2].id
  /\ rset[1].regions[1] # rset[1].regions[2]
  /\ ret.val = <<Some(rset[1].regions[1]), Some(rset[1].regions[1]), TRUE>>
  /\ task = "api" /\ Len(G.nodes) = 1
  /\ G.region[G.nodes[1]] = [k \in Dims |-> [lower |-> MaxCoord,
                                            upper |-> MaxCoord]]

====
